---- MODULE Spec2Model ----
(***************************************************************************)
(* The Linger tree-walking interpreter (src/src/interpreter/*.rs) and its  *)
(* Environment (src/src/environment.rs) as a state machine.                *)
(*                                                                         *)
(* The recursion of interp_statement / interp_expression is made explicit  *)
(* as a stack of activations: one frame per running Expr::Call, per        *)
(* running Statement::Block and per running Statement::While.  The program *)
(* text is supplied statement by statement: every action that executes a   *)
(* statement draws the statement from a small set, so the behaviours of    *)
(* the model are the executions of all programs up to the bounds below.    *)
(***************************************************************************)
EXTENDS Integers, Sequences, FiniteSets, TLC

\* ---------------------------------------------------------------- bounds
MaxSteps == 3
MaxLoopSteps == 7
MaxDepth == 6
MaxCallSteps == 4
MaxLogicSteps == 2
MaxLen == 2
MaxBody == 2
MaxElseIfs == 2
MaxForSteps == 5

\* Names a program of the model may use: a variable that holds numbers, a
\* variable that holds lambdas, the parameter of the top-level procedure p,
\* and the top-level procedures.
NumNames == {"x"}
VarNames == NumNames \cup {"f"}
ParamNames == {"a"}
ProcNames == {"main", "p"}
Names == VarNames \cup ParamNames \cup ProcNames
InitNums == {1}
AssignNums == {2}

\* ---------------------------------------------------------------- values
Nil == [t |-> "Nil"]
Num(n) == [t |-> "Num", n |-> n]
Proc(params, body, env) == [t |-> "Proc", params |-> params, body |-> body, env |-> env]
Bool(b) == [t |-> "Bool", b |-> b]
Str(chars) == [t |-> "Str", chars |-> chars]
List(items) == [t |-> "List", items |-> items]

\* Numbers are f64 in the interpreter: the number n + 1/2 stands for the
\* numbers with a fractional part.
NumAndHalf(n) == [t |-> "Num", n |-> n, half |-> TRUE]

\* num.fract() != 0.0
HasFract(num) == "half" \in DOMAIN num

\* num as i64, for a number without fractional part in the range of i64
AsI64(num) == num.n

\* Runtime errors (src/src/error.rs); NoError stands for Ok.
NoError == [kind |-> "None", arg |-> ""]
Error(kind, arg) == [kind |-> kind, arg |-> arg]

\* ArgMismatch(name, expected, actual)
\* IndexOutOfBounds(index)
IndexOutOfBounds(index) == [kind |-> "IndexOutOfBounds", arg |-> "", index |-> index]

ArgMismatchError(name, expected, actual) ==
    [kind |-> "ArgMismatch", arg |-> name, expected |-> expected, actual |-> actual]

\* ---------------------------------------------------------------- environment
\* A statement body is kept by its outermost shape; the statements of a
\* "Block" body are supplied while it runs.
TopLevelProcedures ==
    [n \in ProcNames |->
        IF n = "main" THEN [params |-> <<>>, body |-> "Block"]
                      ELSE [params |-> <<"a">>, body |-> "Block"]]

EmptyValues == [n \in {} |-> Nil]

NewEnvironment ==
    [top_level_procedures |-> TopLevelProcedures, values |-> EmptyValues]

Entry(value, assignment_type, mutability) ==
    [value |-> value, assignment_type |-> assignment_type, mutability |-> mutability]

ContainsKey(env, key) == key \in DOMAIN env.values

InsertValue(env, key, entry) ==
    [env EXCEPT !.values =
        [n \in (DOMAIN env.values) \cup {key} |->
            IF n = key THEN entry ELSE env.values[n]]]

\* Environment::get: a bound value, else a top-level procedure closed over
\* the environment the lookup is made in, else UnknownVariable.
Get(env, key) ==
    IF ContainsKey(env, key)
    THEN [err |-> NoError, value |-> env.values[key].value]
    ELSE IF key \in DOMAIN env.top_level_procedures
    THEN [err |-> NoError,
          value |-> Proc(env.top_level_procedures[key].params,
                         env.top_level_procedures[key].body, env)]
    ELSE [err |-> Error("UnknownVariable", key), value |-> Nil]

RECURSIVE ExtendFrom(_, _, _)
ExtendFrom(env, bindings, i) ==
    IF i > Len(bindings) THEN env
    ELSE ExtendFrom(InsertValue(env, bindings[i][1], bindings[i][2]), bindings, i + 1)

Extend(env, bindings) == ExtendFrom(env, bindings, 1)

InsertNewMutableValue(env, key, value) ==
    InsertValue(env, key, Entry(value, "Initialized", "Mutable"))

InsertNewConstantValue(env, key, value) ==
    InsertValue(env, key, Entry(value, "Initialized", "Constant"))

\* reassign without the mutability check.
ReassignAnyBinding(env, key, value) ==
    IF ContainsKey(env, key)
    THEN [err |-> NoError,
          env |-> InsertValue(env, key, Entry(value, "Reassigned", env.values[key].mutability))]
    ELSE IF key \in DOMAIN env.top_level_procedures
    THEN [err |-> Error("ReassignTopLevelProc", key), env |-> env]
    ELSE [err |-> Error("UnknownVariable", key), env |-> env]

\* reassign without the lookup in the procedure table.
ReassignNoProcedures(env, key, value) ==
    IF ContainsKey(env, key)
    THEN IF env.values[key].mutability = "Mutable"
         THEN [err |-> NoError,
               env |-> InsertValue(env, key, Entry(value, "Reassigned", "Mutable"))]
         ELSE [err |-> Error("ReassignConstant", key), env |-> env]
    ELSE [err |-> Error("UnknownVariable", key), env |-> env]

\* Environment::reassign
Reassign(env, key, value) ==
    IF ContainsKey(env, key)
    THEN IF env.values[key].mutability = "Mutable"
         THEN [err |-> NoError,
               env |-> InsertValue(env, key, Entry(value, "Reassigned", "Mutable"))]
         ELSE [err |-> Error("ReassignConstant", key), env |-> env]
    ELSE IF key \in DOMAIN env.top_level_procedures
    THEN [err |-> Error("ReassignTopLevelProc", key), env |-> env]
    ELSE [err |-> Error("UnknownVariable", key), env |-> env]

\* Environment::update_reassigned_entries.  The loop stops at the first key
\* whose reassign fails; the HashMap gives the keys in no fixed order, so
\* the result names every key that can be the one reported.
ReassignedKeys(self, other) ==
    {k \in DOMAIN other.values :
        ContainsKey(self, k) /\ other.values[k].assignment_type = "Reassigned"}

\* update_reassigned_entries without the contains_key test: every
\* reassigned entry of the block is copied out.
UpdateAllReassigned(self, other) ==
    LET keys == {k \in DOMAIN other.values : other.values[k].assignment_type = "Reassigned"}
    IN  [failing |-> {},
         env |-> [self EXCEPT !.values =
                    [n \in (DOMAIN self.values) \cup keys |->
                        IF n \in keys THEN other.values[n] ELSE self.values[n]]]]

\* update_reassigned_entries that overwrites the entry of every reassigned
\* name without going through reassign.
UpdateReassignedUnchecked(self, other) ==
    LET keys == ReassignedKeys(self, other) IN
    [failing |-> {},
     env |-> [self EXCEPT !.values =
                [n \in DOMAIN self.values |->
                    IF n \in keys
                    THEN Entry(other.values[n].value, "Reassigned", self.values[n].mutability)
                    ELSE self.values[n]]]]

UpdateReassignedEntries(self, other) ==
    LET keys == ReassignedKeys(self, other)
        failing == {k \in keys : Reassign(self, k, other.values[k].value).err # NoError}
    IN  [failing |-> failing,
         env |-> [self EXCEPT !.values =
                    [n \in DOMAIN self.values |->
                        IF n \in keys \ failing
                        THEN Reassign(self, n, other.values[n].value).env.values[n]
                        ELSE self.values[n]]]]

\* ---------------------------------------------------------------- expressions
ENil == [k |-> "Nil"]
ENum(n) == [k |-> "Num", n |-> n]
EVar(id) == [k |-> "Var", id |-> id]
ELambda(params, body) == [k |-> "Lambda", params |-> params, body |-> body]
EUnary(op, operand) == [k |-> "Unary", op |-> op, operand |-> operand]

EBool(b) == [k |-> "Bool", b |-> b]
EBinary(op, left, right) == [k |-> "Binary", op |-> op, left |-> left, right |-> right]
EIndex(indexable, index) == [k |-> "Index", indexable |-> indexable, index |-> index]

IncDecOps == {"PreIncrement", "PostIncrement", "PreDecrement", "PostDecrement"}

\* ++ and -- both adding one.
DeltaAlwaysOne(op) == 1

Delta(op) == IF op \in {"PreIncrement", "PostIncrement"} THEN 1 ELSE -1

\* LogicAnd and LogicOr evaluate both operands whatever the left one is.
NeverShortCircuits(op, b) == FALSE

\* The left operand b of LogicAnd / LogicOr decides the result.
ShortCircuits(op, b) == (op = "LogicAnd" /\ ~b) \/ (op = "LogicOr" /\ b)

\* nth that counts the elements from one.
NthFromOne(items, index) ==
    IF 0 < index /\ index <= Len(items)
    THEN [some |-> TRUE, value |-> items[index]]
    ELSE [some |-> FALSE, value |-> Nil]

\* Iterator::nth for an index >= 0
Nth(items, index) ==
    IF index < Len(items) THEN [some |-> TRUE, value |-> items[index + 1]]
                          ELSE [some |-> FALSE, value |-> Nil]

\* Expr::Index, the indexable and the index evaluated.
IndexValue(indexable, index) ==
    LET items == IF indexable.t = "List" THEN indexable.items ELSE indexable.chars IN
    IF index.t # "Num" THEN [err |-> Error("ExpectedInteger", index.t), value |-> Nil]
    ELSE IF HasFract(index) THEN [err |-> Error("ExpectedInteger", "Num"), value |-> Nil]
    ELSE IF AsI64(index) < 0 THEN [err |-> IndexOutOfBounds(AsI64(index)), value |-> Nil]
    ELSE IF ~Nth(items, AsI64(index)).some
    THEN [err |-> IndexOutOfBounds(AsI64(index)), value |-> Nil]
    ELSE [err |-> NoError,
          value |-> IF indexable.t = "List" THEN Nth(items, AsI64(index)).value
                    ELSE Str(<<Nth(items, AsI64(index)).value>>)]

\* interp_expression for the expression forms the model's programs use.
\* The result carries the environment because ++ and -- reassign.
RECURSIVE InterpExpression(_, _)
InterpExpression(env, expr) ==
    CASE expr.k = "Nil" -> [err |-> NoError, value |-> Nil, env |-> env]
      [] expr.k = "Bool" -> [err |-> NoError, value |-> Bool(expr.b), env |-> env]
      [] expr.k = "Binary" /\ expr.op \in {"LogicAnd", "LogicOr"} ->
            LET l == InterpExpression(env, expr.left) IN
            IF l.err # NoError THEN [err |-> l.err, value |-> Nil, env |-> l.env]
            ELSE IF l.value.t # "Bool"
            THEN [err |-> Error("BadArg", l.value.t), value |-> Nil, env |-> l.env]
            ELSE IF ShortCircuits(expr.op, l.value.b)
            THEN [err |-> NoError, value |-> Bool(l.value.b), env |-> l.env]
            ELSE LET r == InterpExpression(l.env, expr.right) IN
                 IF r.err # NoError THEN [err |-> r.err, value |-> Nil, env |-> r.env]
                 ELSE IF r.value.t # "Bool"
                 THEN [err |-> Error("BadArg", r.value.t), value |-> Nil, env |-> r.env]
                 ELSE [err |-> NoError, value |-> Bool(r.value.b), env |-> r.env]
      [] expr.k = "Binary" /\ expr.op = "LT" ->
            LET l == InterpExpression(env, expr.left) IN
            IF l.err # NoError THEN [err |-> l.err, value |-> Nil, env |-> l.env]
            ELSE LET r == InterpExpression(l.env, expr.right) IN
                 IF r.err # NoError THEN [err |-> r.err, value |-> Nil, env |-> r.env]
                 ELSE IF l.value.t = "Num" /\ r.value.t = "Num"
                 THEN [err |-> NoError, value |-> Bool(l.value.n < r.value.n), env |-> r.env]
                 ELSE [err |-> Error("BadArgs", l.value.t), value |-> Nil, env |-> r.env]
      [] expr.k = "Index" ->
            LET c == InterpExpression(env, expr.indexable) IN
            IF c.err # NoError THEN [err |-> c.err, value |-> Nil, env |-> c.env]
            ELSE IF c.value.t \notin {"List", "Str"}
            THEN [err |-> Error("NotIndexable", c.value.t), value |-> Nil, env |-> c.env]
            ELSE LET i == InterpExpression(c.env, expr.index) IN
                 IF i.err # NoError THEN [err |-> i.err, value |-> Nil, env |-> i.env]
                 ELSE [err |-> IndexValue(c.value, i.value).err,
                       value |-> IndexValue(c.value, i.value).value,
                       env |-> i.env]
      [] expr.k = "Num" -> [err |-> NoError, value |-> Num(expr.n), env |-> env]
      [] expr.k = "Lambda" ->
            [err |-> NoError, value |-> Proc(expr.params, expr.body, env), env |-> env]
      [] expr.k = "Var" ->
            [err |-> Get(env, expr.id).err, value |-> Get(env, expr.id).value, env |-> env]
      [] expr.k = "Unary" ->
            IF expr.operand.k # "Var"
            THEN [err |-> Error("InvalidAssignmentTarget", ""), value |-> Nil, env |-> env]
            ELSE LET got == Get(env, expr.operand.id) IN
                 IF got.err # NoError
                 THEN [err |-> got.err, value |-> Nil, env |-> env]
                 ELSE IF got.value.t # "Num"
                 THEN [err |-> Error("BadArg", got.value.t), value |-> Nil, env |-> env]
                 ELSE LET new == Num(got.value.n + Delta(expr.op))
                          re == Reassign(env, expr.operand.id, new)
                      IN  IF re.err # NoError
                          THEN [err |-> re.err, value |-> Nil, env |-> env]
                          ELSE [err |-> NoError,
                                value |-> IF expr.op \in {"PreIncrement", "PreDecrement"}
                                          THEN new ELSE got.value,
                                env |-> re.env]

\* ---------------------------------------------------------------- state
VARIABLES
    stack,  \* the running activations, outermost first
    sig,    \* the (value, ControlFlow) a finished statement hands to its caller
    err,    \* the RuntimeError that ended the run, or NoError
    fuel,   \* statements the run may still execute
    last    \* the step taken last: its kind, the name it is about, what it dropped

vars == <<stack, sig, err, fuel, last>>

Signal(cf, value) == [cf |-> cf, value |-> value]
Normal == Signal("Normal", Nil)

\* An activation.  kind "Call": Expr::Call holding the callee's extended
\* environment; kind "Block": Statement::Block holding block_env, in_loop
\* and block_value; kind "While": Statement::While, which runs on the
\* environment of the activation below it.  declared and assigned record,
\* for a block, the names it has declared with let/const and the value last
\* assigned to each binding of the enclosing scope.
Frame(kind, role, env, in_loop, proc) ==
    [kind |-> kind, role |-> role, env |-> env, in_loop |-> in_loop,
     value |-> Nil, closed |-> FALSE, stepvar |-> "",
     proc |-> proc, declared |-> {}, assigned |-> EmptyValues]

\* Of a dropped frame the step keeps its kind, the names it declared, and
\* those among them that the enclosing environment did not bind.
NoFrame == [kind |-> "None", role |-> "None", declared |-> {}, fresh |-> {}]

Dropped(frame, parent) ==
    [kind |-> frame.kind, role |-> frame.role, declared |-> frame.declared,
     fresh |-> {n \in frame.declared : ~ContainsKey(parent.env, n)}]

\* env and value: for an assignment or ++/--, the environment it ran on and
\* the value of its right-hand side or operand; for a call, the caller's
\* environment and the procedure value whose body was evaluated.
\* For a call also: as expr the callee expression, the value it evaluated to when
\* that is a procedure, and the argument expressions.
Last(op, id, frame) ==
    [op |-> op, id |-> id, frame |-> frame, env |-> NewEnvironment, value |-> Nil,
     expr |-> ENil, callee |-> Nil, args |-> <<>>]

LastOn(op, id, env, value) ==
    [op |-> op, id |-> id, frame |-> NoFrame, env |-> env, value |-> value,
     expr |-> ENil, callee |-> Nil, args |-> <<>>]

LastCall(id, env, value, f_expr, callee, args) ==
    [op |-> "Call", id |-> id, frame |-> NoFrame, env |-> env, value |-> value,
     expr |-> f_expr, callee |-> callee, args |-> args]

\* An expression statement that is not a bare ++/-- or read: the
\* expression and the environment it ran on.
LastEval(env, expr) ==
    [op |-> "Eval", id |-> "", frame |-> NoFrame, env |-> env, value |-> Nil,
     expr |-> expr, callee |-> Nil, args |-> <<>>]

Top == stack[Len(stack)]

\* The activation whose environment the activation at i was entered on.
ParentIdx(i) ==
    CHOOSE j \in 1..(i - 1) :
        /\ stack[j].kind # "While"
        /\ \A k \in (j + 1)..(i - 1) : stack[k].kind = "While"

Running == err = NoError /\ stack # <<>>

CanExec ==
    /\ Running
    /\ Top.kind = "Block"
    /\ sig.cf = "Normal"
    /\ ~Top.closed
    /\ fuel > 0

CanPush(n) == Len(stack) + n <= MaxDepth

\* A statement that ran in the top block: the run ends with its error, or
\* the block goes on with the new frame.
Step(r, l) ==
    /\ IF r.err # NoError
       THEN err' = r.err /\ stack' = [stack EXCEPT ![Len(stack)].env = r.frame.env]
       ELSE err' = err /\ stack' = [stack EXCEPT ![Len(stack)] = r.frame]
    /\ sig' = sig
    /\ fuel' = fuel - 1
    /\ last' = l

\* ---------------------------------------------------------------- simple statements
\* The binding of the enclosing scope was assigned unless the block has
\* declared the name itself.
NoteAssigned(frame, id, value) ==
    IF id \in frame.declared THEN frame.assigned
    ELSE [n \in (DOMAIN frame.assigned) \cup {id} |->
            IF n = id THEN value ELSE frame.assigned[n]]

\* Statement::Let
ExecLet(frame, id, expr) ==
    LET r == InterpExpression(frame.env, expr) IN
    IF r.err # NoError THEN [err |-> r.err, frame |-> [frame EXCEPT !.env = r.env]]
    ELSE [err |-> NoError,
          frame |-> [frame EXCEPT !.env = InsertNewMutableValue(r.env, id, r.value),
                                  !.value = Nil,
                                  !.declared = @ \cup {id}]]

\* Statement::Const
ExecConst(frame, id, expr) ==
    LET r == InterpExpression(frame.env, expr) IN
    IF r.err # NoError THEN [err |-> r.err, frame |-> [frame EXCEPT !.env = r.env]]
    ELSE [err |-> NoError,
          frame |-> [frame EXCEPT !.env = InsertNewConstantValue(r.env, id, r.value),
                                  !.value = Nil,
                                  !.declared = @ \cup {id}]]

\* Statement::Assign
ExecAssign(frame, id, expr) ==
    LET r == InterpExpression(frame.env, expr)
        re == Reassign(r.env, id, r.value)
    IN  IF r.err # NoError THEN [err |-> r.err, frame |-> [frame EXCEPT !.env = r.env]]
        ELSE IF re.err # NoError THEN [err |-> re.err, frame |-> [frame EXCEPT !.env = re.env]]
        ELSE [err |-> NoError,
              frame |-> [frame EXCEPT !.env = re.env,
                                      !.value = Nil,
                                      !.assigned = NoteAssigned(frame, id, r.value)]]

\* Statement::Expr
ExecExpr(frame, expr) ==
    LET r == InterpExpression(frame.env, expr) IN
    [err |-> r.err,
     frame |-> [frame EXCEPT
                  !.env = r.env,
                  !.value = r.value,
                  !.assigned = IF expr.k = "Unary" /\ r.err = NoError
                               THEN NoteAssigned(frame, expr.operand.id,
                                                 r.env.values[expr.operand.id].value)
                               ELSE @]]

\* ---------------------------------------------------------------- programs
LambdaShapes ==
    {ELambda(<<>>, "Block"), ELambda(<<"x">>, "Block"),
     ELambda(<<>>, "Break"), ELambda(<<>>, "Continue")}

\* The initializers and right-hand sides of the model's programs.
InitExprs(id) ==
    IF id \in NumNames THEN {ENum(n) : n \in InitNums} ELSE LambdaShapes

ConstExprs(id) ==
    IF id \in NumNames THEN {ENum(n) : n \in InitNums} \cup {ELambda(<<>>, "Block")} ELSE {}

AssignExprs == {ENum(n) : n \in AssignNums}

AssignNames == NumNames \cup {"p"}

StmtExprs ==
    {EVar(id) : id \in NumNames \cup ParamNames}
        \cup {EUnary(op, EVar(id)) : op \in {"PreIncrement", "PostDecrement"}, id \in NumNames}

ReturnExprs == {<<>>, <<ENum(1)>>}

CondValues == {[t |-> "Bool", b |-> TRUE], [t |-> "Bool", b |-> FALSE], Nil}

CalleeNames == {"f", "p", "x"}

ArgLists == {<<>>, <<ENum(1)>>}

\* ---------------------------------------------------------------- start
MainCall ==
    Frame("Call", "Call", NewEnvironment, FALSE, Proc(<<>>, "Block", NewEnvironment))

MainBody == Frame("Block", "Body", NewEnvironment, FALSE, Nil)

\* main's block after a prefix of declarations: x, then f.
BodyAfterX ==
    {MainBody}
        \cup {ExecLet(MainBody, "x", e).frame : e \in InitExprs("x")}
        \cup {ExecConst(MainBody, "x", e).frame : e \in ConstExprs("x")}

BodyAfterF ==
    BodyAfterX \cup {ExecLet(b, "f", ELambda(<<>>, "Block")).frame : b \in BodyAfterX}

\* interp_program: main's body, a block, runs on a fresh environment and
\* not inside a loop.
Init ==
    /\ stack \in {<<MainCall, b>> : b \in BodyAfterF}
    /\ sig = Normal
    /\ err = NoError
    /\ fuel = MaxSteps
    /\ last = Last("Init", "", NoFrame)

LetStmt(id, expr) ==
    /\ CanExec
    /\ Step(ExecLet(Top, id, expr), Last("Let", id, NoFrame))

ConstStmt(id, expr) ==
    /\ CanExec
    /\ Step(ExecConst(Top, id, expr), Last("Const", id, NoFrame))

AssignStmt(id, expr) ==
    /\ CanExec
    /\ Step(ExecAssign(Top, id, expr),
            LastOn("Assign", id, Top.env, InterpExpression(Top.env, expr).value))

ExprStmt(expr) ==
    /\ CanExec
    /\ Step(ExecExpr(Top, expr),
            IF expr.k = "Unary"
            THEN LastOn(expr.op, expr.operand.id, Top.env, Get(Top.env, expr.operand.id).value)
            ELSE IF expr.k = "Var" THEN Last("Read", expr.id, NoFrame)
            ELSE LastEval(Top.env, expr))

\* Statement::Return, Statement::Break, Statement::Continue
ExecReturn(frame, expr_option) ==
    IF expr_option = <<>> THEN [err |-> NoError, sig |-> Signal("Return", Nil)]
    ELSE LET r == InterpExpression(frame.env, expr_option[1]) IN
         [err |-> r.err, sig |-> Signal("Return", r.value)]

ReturnStmt(expr_option) ==
    /\ CanExec
    /\ LET r == ExecReturn(Top, expr_option) IN
       /\ err' = r.err
       /\ sig' = IF r.err = NoError THEN r.sig ELSE sig
    /\ stack' = stack
    /\ fuel' = fuel - 1
    /\ last' = Last("Return", "", NoFrame)

BreakStmt ==
    /\ CanExec
    /\ sig' = Signal("Break", Nil)
    /\ fuel' = fuel - 1
    /\ last' = Last("Break", "", NoFrame)
    /\ UNCHANGED <<stack, err>>

ContinueStmt ==
    /\ CanExec
    /\ sig' = Signal("Continue", Nil)
    /\ fuel' = fuel - 1
    /\ last' = Last("Continue", "", NoFrame)
    /\ UNCHANGED <<stack, err>>

\* ---------------------------------------------------------------- blocks
\* Statement::Block, entry: block_env = env.clone(), in_loop handed down.
BlockEnv(env) == env

EnterBlock(frame, role, in_loop) == Frame("Block", role, BlockEnv(frame.env), in_loop, Nil)

BlockStmt ==
    /\ CanExec /\ CanPush(1)
    /\ stack' = Append(stack, EnterBlock(Top, "Plain", Top.in_loop))
    /\ fuel' = fuel - 1
    /\ last' = Last("Block", "", NoFrame)
    /\ UNCHANGED <<sig, err>>

\* Statement::If: the branches are blocks (ensure_block in parse_statement)
\* and run on the same environment with the same in_loop.
IfStmt(cond, has_else) ==
    /\ CanExec
    /\ fuel' = fuel - 1
    /\ last' = Last("If", "", NoFrame)
    /\ sig' = sig
    /\ \/ /\ cond.t # "Bool"
          /\ err' = Error("BadArg", cond.t)
          /\ stack' = stack
       \/ /\ cond.t = "Bool" /\ (cond.b \/ has_else)
          /\ CanPush(1)
          /\ err' = err
          /\ stack' = Append(stack, EnterBlock(Top, "Plain", Top.in_loop))
       \/ /\ cond.t = "Bool" /\ ~cond.b /\ ~has_else
          /\ err' = err
          /\ stack' = [stack EXCEPT ![Len(stack)].value = Nil]

\* The enclosing activation after a block ran to its end or was left by a
\* signal: the reassigned entries of block_env written back, and the
\* assignments the block made to bindings the parent did not declare
\* itself passed on as assignments to the parent's enclosing scope.
MergeAssigned(parent, child) ==
    LET passed == {n \in DOMAIN child.assigned : n \notin parent.declared} IN
    [n \in (DOMAIN parent.assigned) \cup passed |->
        IF n \in passed THEN child.assigned[n] ELSE parent.assigned[n]]

WriteBack(parent, child, env) ==
    [parent EXCEPT !.env = env, !.assigned = MergeAssigned(parent, child)]

\* What the activation below receives from a block that yields s.
Deliver(frames, s) ==
    LET t == frames[Len(frames)] IN
    IF s.cf = "Normal" /\ t.kind = "Block"
    THEN [frames EXCEPT ![Len(frames)].value = s.value]
    ELSE frames

DeliverSig(frames, s) ==
    LET t == frames[Len(frames)] IN
    IF s.cf = "Normal" /\ t.kind # "Call" THEN Normal ELSE s

LeaveBlock(s, l) ==
    LET n == Len(stack)
        pi == ParentIdx(n)
        u == UpdateReassignedEntries(stack[pi].env, Top.env)
        popped == [SubSeq(stack, 1, n - 1) EXCEPT ![pi] = WriteBack(stack[pi], Top, u.env)]
    IN  /\ fuel' = fuel
        /\ last' = l
        /\ IF u.failing # {}
           THEN /\ \E k \in u.failing :
                     err' = Reassign(stack[pi].env, k, Top.env.values[k].value).err
                /\ UNCHANGED <<stack, sig>>
           ELSE /\ err' = err
                /\ stack' = Deliver(popped, s)
                /\ sig' = DeliverSig(popped, s)

\* Statement::Block, after the last statement.
BlockEnd ==
    /\ Running
    /\ Top.kind = "Block"
    /\ sig.cf = "Normal"
    /\ Top.role \in {"ForInit", "ForLoop"} => Top.closed
    /\ LeaveBlock(Signal("Normal", Top.value), Last("BlockEnd", "", Dropped(Top, stack[ParentIdx(Len(stack))])))

\* Statement::Block, a statement yielded Return, Break or Continue.
BlockSignal ==
    /\ Running
    /\ Top.kind = "Block"
    /\ sig.cf # "Normal"
    /\ IF sig.cf = "Return" \/ Top.in_loop
       THEN LeaveBlock(sig, Last("BlockSignal", sig.cf, Dropped(Top, stack[ParentIdx(Len(stack))])))
       ELSE /\ err' = Error(IF sig.cf = "Break" THEN "BreakNotInLoop"
                                                ELSE "ContinueNotInLoop", "")
            /\ last' = Last("BlockSignal", sig.cf, NoFrame)
            /\ UNCHANGED <<stack, sig, fuel>>

\* ---------------------------------------------------------------- loops
WhileStmt ==
    /\ CanExec /\ CanPush(1)
    /\ stack' = Append(stack, Frame("While", "While", NewEnvironment, FALSE, Nil))
    /\ fuel' = fuel - 1
    /\ last' = Last("While", "", NoFrame)
    /\ UNCHANGED <<sig, err>>

\* Statement::While after a statement that yields Normal: the while is a
\* statement of the block below, whose block_value it sets; the block a
\* for loop desugars to ends with its while.
EndWhile(frames, while) ==
    [frames EXCEPT ![Len(frames)].value = Nil,
                   ![Len(frames)].closed = (while.role = "For")]

\* Statement::While, the head of the loop: the condition, then the body
\* with in_loop = true on the environment the while runs on.  An iteration
\* counts as a statement of the run.
WhileCond(cond) ==
    /\ Running
    /\ Top.kind = "While"
    /\ sig.cf \in {"Normal", "Continue"}
    /\ last' = Last("WhileCond", cond.t, NoFrame)
    /\ \/ /\ cond.t # "Bool"
          /\ err' = Error("BadArg", cond.t)
          /\ UNCHANGED <<stack, sig, fuel>>
       \/ /\ cond.t = "Bool" /\ cond.b
          /\ fuel > 0 /\ CanPush(1)
          /\ fuel' = fuel - 1
          /\ err' = err
          /\ sig' = Normal
          /\ stack' = Append(stack,
                             [EnterBlock(stack[Len(stack) - 1],
                                         IF Top.role = "For" THEN "ForLoop" ELSE "Loop",
                                         TRUE)
                                EXCEPT !.stepvar = Top.stepvar])
       \/ /\ cond.t = "Bool" /\ ~cond.b
          /\ fuel' = fuel
          /\ err' = err
          /\ sig' = Normal
          /\ stack' = EndWhile(SubSeq(stack, 1, Len(stack) - 1), Top)

\* Statement::While, the body yielded Return or Break.
WhileSignal ==
    /\ Running
    /\ Top.kind = "While"
    /\ sig.cf \in {"Return", "Break"}
    /\ fuel' = fuel
    /\ err' = err
    /\ last' = Last("WhileSignal", sig.cf, NoFrame)
    /\ IF sig.cf = "Return"
       THEN /\ sig' = sig
            /\ stack' = SubSeq(stack, 1, Len(stack) - 1)
       ELSE /\ sig' = Normal
            /\ stack' = EndWhile(SubSeq(stack, 1, Len(stack) - 1), Top)

\* desugar_statement, SugaredStatement::For:
\*   Block([init, While(stop, Block(body ++ [step]))]).
\* The block is entered, init runs in it, and the while is its second and
\* last statement.
ForInitStmts(id) == {[k |-> "Let", id |-> id, expr |-> e] : e \in InitExprs(id)}
                        \cup {[k |-> "Assign", id |-> id, expr |-> e] : e \in AssignExprs}

ExecForInit(frame, init) ==
    IF init.k = "Let" THEN ExecLet(frame, init.id, init.expr)
                      ELSE ExecAssign(frame, init.id, init.expr)

ForStmt(init) ==
    /\ CanExec /\ CanPush(2)
    /\ fuel' = fuel - 1
    /\ last' = Last("For", init.id, NoFrame)
    /\ sig' = sig
    /\ LET r == ExecForInit(EnterBlock(Top, "ForInit", Top.in_loop), init) IN
       IF r.err # NoError
       THEN err' = r.err /\ stack' = Append(stack, r.frame)
       ELSE /\ err' = err
            /\ stack' = stack \o << r.frame,
                                    [Frame("While", "For", NewEnvironment, FALSE, Nil)
                                        EXCEPT !.stepvar = init.id] >>

\* A block that goes on to its next statement whatever the last one yielded.
NextStatementRunsAlways(s) == TRUE

\* Statement::Block goes on to its next statement only after a statement
\* that yielded Normal.
NextStatementRuns(s) == s.cf = "Normal"

\* The step of a for loop, the last statement of the desugared loop body.
ForStep ==
    /\ Running
    /\ Top.kind = "Block" /\ Top.role = "ForLoop"
    /\ NextStatementRuns(sig)
    /\ ~Top.closed
    /\ LET r == ExecExpr(Top, EUnary("PreIncrement", EVar(Top.stepvar))) IN
       /\ err' = r.err
       /\ stack' = [stack EXCEPT ![Len(stack)] =
                        IF r.err # NoError THEN [Top EXCEPT !.env = r.frame.env]
                        ELSE [r.frame EXCEPT !.closed = TRUE]]
    /\ last' = Last("ForStep", Top.stepvar, NoFrame)
    /\ UNCHANGED <<sig, fuel>>

\* ---------------------------------------------------------------- calls
RECURSIVE InterpArgs(_, _, _)
InterpArgs(env, args, i) ==
    IF i > Len(args) THEN [err |-> NoError, values |-> <<>>, env |-> env]
    ELSE LET r == InterpExpression(env, args[i]) IN
         IF r.err # NoError THEN [err |-> r.err, values |-> <<>>, env |-> r.env]
         ELSE LET rest == InterpArgs(r.env, args, i + 1) IN
              [err |-> rest.err, values |-> <<r.value>> \o rest.values, env |-> rest.env]

\* The parameters bound as let bindings.
ParamBindingsMutable(params, values) ==
    [i \in 1..Len(params) |-> <<params[i], Entry(values[i], "Initialized", "Mutable")>>]

ParamBindings(params, values) ==
    [i \in 1..Len(params) |-> <<params[i], Entry(values[i], "Initialized", "Constant")>>]

\* The parameters bound on the caller's environment, not on the snapshot.
CalleeEnvLive(f_env, caller_env, params, values) ==
    Extend(caller_env, ParamBindings(params, values))

\* The environment the body of a call runs on.
CalleeEnv(f_env, caller_env, params, values) == Extend(f_env, ParamBindings(params, values))

\* The name a call reports its callee by.
FName(f_expr) == IF f_expr.k = "Var" THEN f_expr.id ELSE "<lambda>"

\* Expr::Call that evaluates the arguments before it compares their number
\* with the number of parameters.
ExecCallArgsFirst(frame, f_expr, args) ==
    LET got == InterpExpression(frame.env, f_expr)
        f == got.value
        a == InterpArgs(got.env, args, 1)
    IN  IF got.err # NoError THEN [err |-> got.err, env |-> got.env, proc |-> Nil]
        ELSE IF f.t # "Proc" THEN [err |-> Error("BadArg", f.t), env |-> got.env, proc |-> Nil]
        ELSE IF a.err # NoError THEN [err |-> a.err, env |-> a.env, proc |-> f]
        ELSE IF Len(args) # Len(f.params)
        THEN [err |-> ArgMismatchError(FName(f_expr), Len(f.params), Len(args)),
              env |-> a.env, proc |-> f]
        ELSE [err |-> NoError, env |-> a.env, proc |-> f,
              callee_env |-> CalleeEnv(f.env, a.env, f.params, a.values)]

\* interp_expression, Expr::Call, up to the evaluation of the body.
ExecCall(frame, f_expr, args) ==
    LET got == InterpExpression(frame.env, f_expr)
        f == got.value
        a == InterpArgs(got.env, args, 1)
    IN  IF got.err # NoError THEN [err |-> got.err, env |-> got.env, proc |-> Nil]
        ELSE IF f.t # "Proc" THEN [err |-> Error("BadArg", f.t), env |-> got.env, proc |-> Nil]
        ELSE IF Len(args) # Len(f.params)
        THEN [err |-> ArgMismatchError(FName(f_expr), Len(f.params), Len(args)),
              env |-> got.env, proc |-> f]
        ELSE IF a.err # NoError THEN [err |-> a.err, env |-> a.env, proc |-> f]
        ELSE [err |-> NoError, env |-> a.env, proc |-> f,
              callee_env |-> CalleeEnv(f.env, a.env, f.params, a.values)]

\* Statement::Expr(Expr::Call): a block body starts to run with in_loop =
\* false; a body that is a bare break or continue yields its signal at
\* once, and the call drops the signal and evaluates to the value, nil.
CallStmt(f_expr, args) ==
    /\ CanExec
    /\ fuel' = fuel - 1
    /\ last' = LastCall(FName(f_expr), Top.env,
                        IF ExecCall(Top, f_expr, args).err = NoError
                        THEN ExecCall(Top, f_expr, args).proc ELSE Nil,
                        f_expr, ExecCall(Top, f_expr, args).proc, args)
    /\ sig' = sig
    /\ LET r == ExecCall(Top, f_expr, args)
           caller == [Top EXCEPT !.env = r.env]
       IN  IF r.err # NoError
           THEN err' = r.err /\ stack' = [stack EXCEPT ![Len(stack)] = caller]
           ELSE /\ err' = err
                /\ IF r.proc.body = "Block"
                   THEN /\ CanPush(2)
                        /\ stack' = [stack EXCEPT ![Len(stack)] = caller]
                                      \o << Frame("Call", "Call", r.callee_env, FALSE, r.proc),
                                            Frame("Block", "Body", BlockEnv(r.callee_env), FALSE, Nil) >>
                   ELSE stack' = [stack EXCEPT ![Len(stack)] = [caller EXCEPT !.value = Nil]]

\* A call that writes the reassigned entries of the callee's environment
\* back to the caller, as a block does.
ReturnToWritingBack(caller, callee, value) ==
    [caller EXCEPT !.value = value,
                   !.env = UpdateReassignedEntries(caller.env, callee.env).env]

\* The caller's activation once the call has its value: the extended
\* environment of the callee is dropped.
ReturnTo(caller, callee, value) == [caller EXCEPT !.value = value]

\* Expr::Call, the body has run: `(value, _) => Ok(value)`.  The step
\* records the environment the body ran on, as the body left it.
CallReturn ==
    /\ Running
    /\ Top.kind = "Call" /\ Len(stack) > 1
    /\ stack' = [SubSeq(stack, 1, Len(stack) - 1) EXCEPT
                    ![Len(stack) - 1] = ReturnTo(stack[Len(stack) - 1], Top, sig.value)]
    /\ sig' = Normal
    /\ last' = LastOn("CallReturn", sig.cf, Top.env, Nil)
    /\ UNCHANGED <<err, fuel>>

\* interp_program: the value of main's body is the program's result.
Finish ==
    /\ Running
    /\ Top.kind = "Call" /\ Len(stack) = 1
    /\ stack' = <<>>
    /\ last' = Last("Finish", sig.cf, NoFrame)
    /\ UNCHANGED <<sig, err, fuel>>

Next ==
    \/ \E id \in VarNames : \E expr \in InitExprs(id) : LetStmt(id, expr)
    \/ \E id \in VarNames : \E expr \in ConstExprs(id) : ConstStmt(id, expr)
    \/ \E id \in AssignNames : \E expr \in AssignExprs : AssignStmt(id, expr)
    \/ \E expr \in StmtExprs : ExprStmt(expr)
    \/ \E e \in ReturnExprs : ReturnStmt(e)
    \/ BreakStmt
    \/ ContinueStmt
    \/ BlockStmt
    \/ \E cond \in CondValues : \E has_else \in BOOLEAN : IfStmt(cond, has_else)
    \/ BlockEnd
    \/ BlockSignal
    \/ WhileStmt
    \/ \E cond \in CondValues : WhileCond(cond)
    \/ WhileSignal
    \/ \E id \in NumNames : \E init \in ForInitStmts(id) : ForStmt(init)
    \/ ForStep
    \/ \E f_name \in CalleeNames : \E args \in ArgLists : CallStmt(EVar(f_name), args)
    \/ CallReturn
    \/ Finish

Spec == Init /\ [][Next]_vars

\* A run of declarations, ++, return, break, continue and while loops on
\* main's block, with more statements than Spec allows.
InitLoops ==
    /\ stack \in {<<MainCall, b>> : b \in BodyAfterX}
    /\ sig = Normal
    /\ err = NoError
    /\ fuel = MaxLoopSteps
    /\ last = Last("Init", "", NoFrame)

NextLoops ==
    \/ \E expr \in InitExprs("x") : LetStmt("x", expr)
    \/ ExprStmt(EUnary("PreIncrement", EVar("x")))
    \/ ReturnStmt(<<>>)
    \/ BreakStmt
    \/ ContinueStmt
    \/ BlockEnd
    \/ BlockSignal
    \/ WhileStmt
    \/ \E cond \in CondValues : WhileCond(cond)
    \/ WhileSignal
    \/ Finish

SpecLoops == InitLoops /\ [][NextLoops]_vars

\* for loops on main's block whose bodies are made of continue, break,
\* blocks and further for loops.
InitFor ==
    /\ stack = <<MainCall, MainBody>>
    /\ sig = Normal
    /\ err = NoError
    /\ fuel = MaxForSteps
    /\ last = Last("Init", "", NoFrame)

NextFor ==
    \/ \E init \in ForInitStmts("x") : ForStmt(init)
    \/ \E cond \in CondValues : WhileCond(cond)
    \/ ForStep
    \/ ContinueStmt
    \/ BreakStmt
    \/ BlockStmt
    \/ BlockEnd
    \/ BlockSignal
    \/ WhileSignal
    \/ Finish

SpecFor == InitFor /\ [][NextFor]_vars

\* Calls with a callee that is a name or a lambda expression and with
\* arguments that reassign, from main's block or from a loop in it.
CallLambdas == {ELambda(<<>>, "Block"), ELambda(<<"a", "x">>, "Block")}

CallCallees == {EVar("f"), EVar("p"), ELambda(<<"a">>, "Block")}

CallArgLists ==
    {<<>>, <<EUnary("PostIncrement", EVar("x"))>>,
     <<EUnary("PostIncrement", EVar("x")), EVar("x")>>}

InitCalls ==
    /\ stack \in {<<MainCall, ExecLet(ExecLet(MainBody, "x", ENum(1)).frame, "f", e).frame>> :
                     e \in CallLambdas}
    /\ sig = Normal
    /\ err = NoError
    /\ fuel = MaxCallSteps
    /\ last = Last("Init", "", NoFrame)

NextCalls ==
    \/ \E f_expr \in CallCallees : \E args \in CallArgLists : CallStmt(f_expr, args)
    \/ \E id \in {"a", "x"} : \E expr \in AssignExprs : AssignStmt(id, expr)
    \/ ReturnStmt(<<>>)
    \/ BreakStmt
    \/ BlockEnd
    \/ BlockSignal
    \/ WhileStmt
    \/ \E cond \in CondValues : WhileCond(cond)
    \/ WhileSignal
    \/ CallReturn
    \/ Finish

SpecCalls == InitCalls /\ [][NextCalls]_vars

\* Expression statements a && b and a || b on main's block, x bound to 1:
\* operands that are booleans, numbers, and the comparison ++x < 3, which
\* reassigns x and is a boolean.
SideEffect == EBinary("LT", EUnary("PreIncrement", EVar("x")), ENum(3))

LogicExprs ==
    {EBinary(op, l, r) :
        op \in {"LogicAnd", "LogicOr"},
        l \in {EBool(TRUE), EBool(FALSE), ENum(1), SideEffect},
        r \in {EBool(TRUE), EBool(FALSE), EUnary("PreIncrement", EVar("x")), SideEffect}}

InitLogic ==
    /\ stack = <<MainCall, ExecLet(MainBody, "x", ENum(1)).frame>>
    /\ sig = Normal
    /\ err = NoError
    /\ fuel = MaxLogicSteps
    /\ last = Last("Init", "", NoFrame)

NextLogic ==
    \/ \E expr \in LogicExprs : ExprStmt(expr)
    \/ BlockEnd
    \/ Finish

SpecLogic == InitLogic /\ [][NextLogic]_vars

\* The expression statement l[i] on main's block, l and i bound to the
\* lists and strings of up to MaxLen elements, to values that cannot be
\* indexed, and to numbers and other values as index.
SeqsOf(S) == UNION {[1..n -> S] : n \in 0..MaxLen}

IndexableValues ==
    {List(items) : items \in SeqsOf({Num(1), Nil})}
        \cup {Str(chars) : chars \in SeqsOf({"a", "b"})}
        \cup {Nil, Num(1), Bool(TRUE)}

IndexValues ==
    {Num(n) : n \in (-2)..(MaxLen + 1)}
        \cup {NumAndHalf(n) : n \in {-1, 0, 1}}
        \cup {Nil, Str(<<"a">>)}

InitIndex ==
    /\ stack \in {<<MainCall,
                     [MainBody EXCEPT !.env =
                        InsertNewMutableValue(InsertNewMutableValue(NewEnvironment, "l", c),
                                              "i", i)]>> :
                     c \in IndexableValues, i \in IndexValues}
    /\ sig = Normal
    /\ err = NoError
    /\ fuel = 1
    /\ last = Last("Init", "", NoFrame)

NextIndex ==
    \/ ExprStmt(EIndex(EVar("l"), EVar("i")))
    \/ BlockEnd
    \/ Finish

SpecIndex == InitIndex /\ [][NextIndex]_vars

\* ---------------------------------------------------------------- desugaring
\* Sugared statements and expressions, as the parser builds them.
SNum(n) == [k |-> "SNum", n |-> n]
SVar(id) == [k |-> "SVar", id |-> id]
SBinary(op, left, right) == [k |-> "SBinary", op |-> op, left |-> left, right |-> right]
SUnary(op, operand) == [k |-> "SUnary", op |-> op, operand |-> operand]

SExpr(expr) == [k |-> "SExpr", expr |-> expr]
SLet(id, expr) == [k |-> "SLet", id |-> id, expr |-> expr]
SAssign(id, expr) == [k |-> "SAssign", id |-> id, expr |-> expr]
SBlock(stmts) == [k |-> "SBlock", stmts |-> stmts]
SWhile(cond, body) == [k |-> "SWhile", cond |-> cond, body |-> body]
SFor(init, stop, step, body) ==
    [k |-> "SFor", init |-> init, stop |-> stop, step |-> step, body |-> body]
SBreak == [k |-> "SBreak"]
SContinue == [k |-> "SContinue"]

\* Core statements.
StExpr(expr) == [k |-> "Expr", expr |-> expr]
StLet(id, expr) == [k |-> "Let", id |-> id, expr |-> expr]
StAssign(id, expr) == [k |-> "Assign", id |-> id, expr |-> expr]
StBlock(stmts) == [k |-> "Block", stmts |-> stmts]
StWhile(cond, body) == [k |-> "While", cond |-> cond, body |-> body]
StBreak == [k |-> "Break"]
StContinue == [k |-> "Continue"]
StIf(cond, then_statement, else_option) ==
    [k |-> "If", cond |-> cond, then_statement |-> then_statement,
     else_option |-> else_option]
Unreachable == [k |-> "unreachable!"]

\* desugar_expression
RECURSIVE DesugarExpression(_)
DesugarExpression(e) ==
    CASE e.k = "SNum" -> ENum(e.n)
      [] e.k = "SVar" -> EVar(e.id)
      [] e.k = "SBool" -> EBool(e.b)
      [] e.k = "SBinary" ->
            EBinary(e.op, DesugarExpression(e.left), DesugarExpression(e.right))
      [] e.k = "SUnary" -> EUnary(e.op, DesugarExpression(e.operand))

\* The step put before the statements of the body.
StepFirst(body_statements, step) == <<step>> \o body_statements

\* while_block_statements.append(&mut vec![desugared_reassign_statement])
AppendStep(body_statements, step) == body_statements \o <<step>>

RECURSIVE DesugarStatement(_)

\* else_ifs.into_iter().rfold(desugared_else_option, ..): the last else-if
\* is wrapped first.  An option is a sequence of no or one element.
RECURSIVE NestElseIfs(_, _)
NestElseIfs(else_ifs, acc) ==
    IF else_ifs = <<>> THEN acc
    ELSE LET cur == else_ifs[Len(else_ifs)] IN
         NestElseIfs(SubSeq(else_ifs, 1, Len(else_ifs) - 1),
                     <<StIf(DesugarExpression(cur.cond), DesugarStatement(cur.block), acc)>>)

\* desugar_statement
DesugarStatement(st) ==
    CASE st.k = "SExpr" -> StExpr(DesugarExpression(st.expr))
      [] st.k = "SLet" -> StLet(st.id, DesugarExpression(st.expr))
      [] st.k = "SAssign" -> StAssign(st.id, DesugarExpression(st.expr))
      [] st.k = "SWhile" -> StWhile(DesugarExpression(st.cond), DesugarStatement(st.body))
      [] st.k = "SFor" ->
            LET body == DesugarStatement(st.body) IN
            IF body.k # "Block" THEN Unreachable
            ELSE StBlock(<<DesugarStatement(st.init),
                           StWhile(DesugarExpression(st.stop),
                                   StBlock(AppendStep(body.stmts, DesugarStatement(st.step))))>>)
      [] st.k = "SIf" ->
            StIf(DesugarExpression(st.cond), DesugarStatement(st.then_block),
                 NestElseIfs(st.else_ifs,
                             IF st.else_option = <<>> THEN <<>>
                             ELSE <<DesugarStatement(st.else_option[1])>>))
      [] st.k = "SBreak" -> StBreak
      [] st.k = "SContinue" -> StContinue
      [] st.k = "SBlock" ->
            StBlock([i \in 1..Len(st.stmts) |-> DesugarStatement(st.stmts[i])])

\* The for statements desugared: init a let or an assignment, step an
\* assignment or a ++, the body a block of up to MaxBody statements, a
\* for loop and a while loop among them.
ForInits == {SLet("i", SNum(0)), SAssign("i", SNum(0))}
ForStop == SBinary("LT", SVar("i"), SNum(3))
ForSteps ==
    {SAssign("i", SBinary("Plus", SVar("i"), SNum(1))),
     SExpr(SUnary("PostIncrement", SVar("i")))}

InnerFor ==
    SFor(SLet("j", SNum(0)), SBinary("LT", SVar("j"), SVar("i")),
         SExpr(SUnary("PreIncrement", SVar("j"))), SBlock(<<SExpr(SVar("j")), SContinue>>))

BodyStatements ==
    {SExpr(SVar("i")), SBreak, SContinue, InnerFor, SWhile(ForStop, SBlock(<<SBreak>>))}

ForStatements ==
    {SFor(init, ForStop, step, SBlock(stmts)) :
        init \in ForInits, step \in ForSteps,
        stmts \in UNION {[1..n -> BodyStatements] : n \in 0..MaxBody}}

\* The program text of a for statement written out by hand:
\*   { init; while (stop) { body statements; step; } }
HandExpanded(st) ==
    SBlock(<<st.init, SWhile(st.stop, SBlock(st.body.stmts \o <<st.step>>))>>)

NoResult == [k |-> "None"]

InitDesugar ==
    /\ stack = <<>>
    /\ sig = Normal
    /\ err = NoError
    /\ fuel = 0
    /\ last \in {[op |-> "Parsed", statement |-> st, desugared |-> NoResult] :
                    st \in ForStatements}

Desugar ==
    /\ last.op = "Parsed"
    /\ last' = [last EXCEPT !.op = "Desugared",
                            !.desugared = DesugarStatement(last.statement)]
    /\ UNCHANGED <<stack, sig, err, fuel>>

NextDesugar == Desugar

SpecDesugar == InitDesugar /\ [][NextDesugar]_vars

\* ---------------------------------------------------------------- parsing
\* A token is written as its text.  KW, ID, NUM and OP tokens:
Keywords ==
    {"proc", "let", "const", "if", "else", "while", "for", "return", "break",
     "continue", "true", "false"}

IdTokens == {"x", "y", "main", "p", "q", "print", "list"}

NumTokens == {"1", "2", "3"}

OperatorOf(token) ==
    CASE token = "+" -> "Plus"   [] token = "-" -> "Minus"  [] token = "*" -> "Times"
      [] token = "%" -> "Mod"    [] token = "/" -> "Div"
      [] token = "==" -> "Eq"    [] token = "!=" -> "Ne"
      [] token = "<" -> "LT"     [] token = ">" -> "GT"
      [] token = "<=" -> "LTE"   [] token = ">=" -> "GTE"
      [] token = "||" -> "LogicOr" [] token = "&&" -> "LogicAnd"
      [] token = "!" -> "LogicNot"
      [] OTHER -> "None"

NumberOf(token) == CASE token = "1" -> 1 [] token = "2" -> 2 [] token = "3" -> 3

SBool(b) == [k |-> "SBool", b |-> b]
SCall(f, args) == [k |-> "SCall", f |-> f, args |-> args]
SPrimitiveCall(builtin, args) == [k |-> "SPrimitiveCall", builtin |-> builtin, args |-> args]
SLambda(params, body) == [k |-> "SLambda", params |-> params, body |-> body]
SConst(id, expr) == [k |-> "SConst", id |-> id, expr |-> expr]
SReturn(expr_option) == [k |-> "SReturn", expr_option |-> expr_option]

\* Results of the parsing functions: Err(e), or Ok((expr, tokens)) and
\* Ok((statement_option, tokens)).
NoExpr == [k |-> "None"]
ParseErr(e) == [err |-> e, expr |-> NoExpr, rest |-> <<>>]
ParseOk(expr, rest) == [err |-> NoError, expr |-> expr, rest |-> rest]
StatementErr(e) == [err |-> e, some |-> FALSE, statement |-> NoExpr, rest |-> <<>>]
StatementOk(statement, rest) ==
    [err |-> NoError, some |-> TRUE, statement |-> statement, rest |-> rest]
StatementNone(rest) == [err |-> NoError, some |-> FALSE, statement |-> NoExpr, rest |-> rest]
ListErr(e) == [err |-> e, list |-> <<>>, rest |-> <<>>]
ListOk(list, rest) == [err |-> NoError, list |-> list, rest |-> rest]

UnexpectedEOF == Error("UnexpectedEOF", "")

\* unexpected_token
UnexpectedToken(tokens) ==
    IF tokens = <<>> THEN UnexpectedEOF ELSE Error("UnexpectedToken", tokens[1])

\* Expected(target, token)
Expected(target, token) == [kind |-> "Expected", arg |-> target, token |-> token]

\* consume_token
ConsumeToken(target, tokens) ==
    IF tokens = <<>> THEN [err |-> UnexpectedEOF, rest |-> <<>>]
    ELSE IF tokens[1] = target THEN [err |-> NoError, rest |-> Tail(tokens)]
    ELSE [err |-> Expected(target, tokens[1]), rest |-> <<>>]

\* conditionally_consume_semicolon
ConditionallyConsumeSemicolon(tokens, should_consume) ==
    IF should_consume THEN ConsumeToken(";", tokens)
    ELSE [err |-> NoError, rest |-> tokens]

\* match_operator
MatchOperator(operators, tokens) ==
    IF tokens # <<>> /\ OperatorOf(tokens[1]) \in operators
    THEN [some |-> TRUE, op |-> OperatorOf(tokens[1]), rest |-> Tail(tokens)]
    ELSE [some |-> FALSE, op |-> "None", rest |-> tokens]

\* check_builtin
CheckBuiltin(expr) ==
    IF expr.k = "SVar" /\ expr.id \in {"print", "list"} THEN expr.id ELSE "None"

\* The operators as if + and - bound tighter than *, % and /.
LevelOperatorsSwapped(level) ==
    CASE level = 1 -> {"LogicOr"}
      [] level = 2 -> {"LogicAnd"}
      [] level = 3 -> {"Eq", "Ne"}
      [] level = 4 -> {"LT", "GT", "LTE", "GTE"}
      [] level = 5 -> {"Times", "Mod", "Div"}
      [] level = 6 -> {"Plus", "Minus"}

\* The operators of parse_logical_or_expr (level 1) down to
\* parse_multiplicative_expr (level 6).
LevelOperators(level) ==
    CASE level = 1 -> {"LogicOr"}
      [] level = 2 -> {"LogicAnd"}
      [] level = 3 -> {"Eq", "Ne"}
      [] level = 4 -> {"LT", "GT", "LTE", "GTE"}
      [] level = 5 -> {"Plus", "Minus"}
      [] level = 6 -> {"Times", "Mod", "Div"}

\* is_assignment, is_assignment_or_initialization
IsAssignment(statement) ==
    \/ statement.k \in {"SAssign", "SOperatorAssignment"}
    \/ /\ statement.k = "SExpr"
       /\ statement.expr.k = "SUnary"
       /\ statement.expr.op \in IncDecOps

IsAssignmentOrInitialization(statement) ==
    statement.k = "SLet" \/ IsAssignment(statement)

\* ensure_block
EnsureBlock(r) ==
    IF r.err # NoError THEN r
    ELSE IF r.some /\ r.statement.k = "SBlock" THEN r
    ELSE StatementErr(Error("ExpectedBlock", ""))

\* The element of a one-element set: Only({f(r) : r \in {e}}) is f of the
\* value of e, computed once, as after a Rust `let r = e`.
Only(S) == CHOOSE r \in S : TRUE

RECURSIVE ParseLevel(_, _)
RECURSIVE BinaryLoop(_, _, _)
RECURSIVE ParseUnaryExpr(_)
RECURSIVE CallLoop(_, _)
RECURSIVE ParseTerminalExpr(_)
RECURSIVE ParseArgs(_)
RECURSIVE ParseParams(_)
RECURSIVE ParseStatement(_, _)
RECURSIVE ParseStatements(_)

\* parse_expr
ParseExpr(tokens) == ParseLevel(1, tokens)

\* parse_binary_expr, the loop after the first operand
BinaryLoop(level, expr, tokens) ==
    LET m == MatchOperator(LevelOperators(level), tokens) IN
    IF ~m.some THEN ParseOk(expr, tokens)
    ELSE Only({IF right.err # NoError THEN right
               ELSE BinaryLoop(level, SBinary(m.op, expr, right.expr), right.rest) :
               right \in {ParseLevel(level + 1, m.rest)}})

\* parse_logical_or_expr .. parse_multiplicative_expr: parse_binary_expr
\* with the parser of the next level, parse_unary_expr after the last.
ParseLevel(level, tokens) ==
    IF level > 6 THEN ParseUnaryExpr(tokens)
    ELSE Only({IF first.err # NoError THEN first
               ELSE BinaryLoop(level, first.expr, first.rest) :
               first \in {ParseLevel(level + 1, tokens)}})

\* parse_call_expr, the loop after the terminal expression
CallLoop(expr, tokens) ==
    IF tokens # <<>> /\ tokens[1] = "("
    THEN Only({IF a.err # NoError THEN ParseErr(a.err)
               ELSE CallLoop(IF CheckBuiltin(expr) # "None"
                             THEN SPrimitiveCall(CheckBuiltin(expr), a.list)
                             ELSE SCall(expr, a.list),
                             a.rest) :
               a \in {ParseArgs(Tail(tokens))}})
    ELSE ParseOk(expr, tokens)

\* parse_call_expr
ParseCallExpr(tokens) ==
    Only({IF t.err # NoError THEN t ELSE CallLoop(t.expr, t.rest) :
          t \in {ParseTerminalExpr(tokens)}})

\* parse_unary_expr
ParseUnaryExpr(tokens) ==
    LET m == MatchOperator({"Minus", "LogicNot"}, tokens)
        pre == IF tokens # <<>> /\ tokens[1] = "++" THEN "PreIncrement"
               ELSE IF tokens # <<>> /\ tokens[1] = "--" THEN "PreDecrement"
               ELSE "None"
    IN
    IF m.some
    THEN Only({IF right.err # NoError THEN right
               ELSE ParseOk(SUnary(m.op, right.expr), right.rest) :
               right \in {ParseUnaryExpr(m.rest)}})
    ELSE Only({IF t.err # NoError THEN t
               ELSE IF pre # "None" THEN ParseOk(SUnary(pre, t.expr), t.rest)
               ELSE IF t.rest # <<>> /\ t.rest[1] = "++"
               THEN ParseOk(SUnary("PostIncrement", t.expr), Tail(t.rest))
               ELSE IF t.rest # <<>> /\ t.rest[1] = "--"
               THEN ParseOk(SUnary("PostDecrement", t.expr), Tail(t.rest))
               ELSE t :
               t \in {ParseCallExpr(IF pre = "None" THEN tokens ELSE Tail(tokens))}})

\* parse_rest_args, after the argument e
RestArgs(e) ==
    IF e.rest # <<>> /\ e.rest[1] = ")" THEN ListOk(<<e.expr>>, Tail(e.rest))
    ELSE IF Len(e.rest) >= 2 /\ e.rest[1] = "," /\ e.rest[2] = ")"
    THEN ListErr(UnexpectedToken(e.rest))
    ELSE IF e.rest # <<>> /\ e.rest[1] = ","
    THEN Only({IF more.err # NoError THEN more
               ELSE ListOk(<<e.expr>> \o more.list, more.rest) :
               more \in {ParseArgs(Tail(e.rest))}})
    ELSE ListErr(UnexpectedToken(e.rest))

\* parse_args
ParseArgs(tokens) ==
    IF tokens # <<>> /\ tokens[1] = ")" THEN ListOk(<<>>, Tail(tokens))
    ELSE Only({IF e.err # NoError THEN ListErr(e.err) ELSE RestArgs(e) :
               e \in {ParseExpr(tokens)}})

\* parse_params with parse_rest_params, on the tokens after "("
ParseParams(tokens) ==
    IF tokens # <<>> /\ tokens[1] = ")" THEN ListOk(<<>>, Tail(tokens))
    ELSE IF tokens # <<>> /\ tokens[1] \in Keywords
    THEN ListErr(Error("KeywordAsParam", tokens[1]))
    ELSE IF tokens # <<>> /\ tokens[1] \in IdTokens
    THEN LET r == Tail(tokens) IN
         IF r # <<>> /\ r[1] = ")" THEN ListOk(<<tokens[1]>>, Tail(r))
         ELSE IF Len(r) >= 2 /\ r[1] = "," /\ r[2] = ")" THEN ListErr(UnexpectedToken(r))
         ELSE IF r # <<>> /\ r[1] = ","
         THEN Only({IF more.err # NoError THEN more
                    ELSE ListOk(<<tokens[1]>> \o more.list, more.rest) :
                    more \in {ParseParams(Tail(r))}})
         ELSE ListErr(UnexpectedToken(r))
    ELSE ListErr(UnexpectedToken(tokens))

\* parse_terminal_expr, the lambda: the parameters ps parsed, THIN_ARROW and
\* a statement follow
ParseLambda(ps) ==
    LET arrow == ConsumeToken("->", ps.rest) IN
    IF arrow.err # NoError THEN ParseErr(arrow.err)
    ELSE Only({IF body.err # NoError THEN ParseErr(body.err)
               ELSE IF ~body.some THEN ParseErr(Error("ExpectedStatement", ""))
               ELSE ParseOk(SLambda(ps.list, body.statement), body.rest) :
               body \in {ParseStatement(arrow.rest, FALSE)}})

\* parse_terminal_expr, the parenthesised expression, the "(" consumed
ParseParenthesized(tokens) ==
    Only({IF e.err # NoError THEN e
          ELSE LET close == ConsumeToken(")", e.rest) IN
               IF close.err # NoError THEN ParseErr(close.err)
               ELSE ParseOk(e.expr, close.rest) :
          e \in {ParseExpr(tokens)}})

\* parse_terminal_expr
ParseTerminalExpr(tokens) ==
    IF tokens = <<>> THEN ParseErr(UnexpectedToken(tokens))
    ELSE IF tokens[1] \in {"true", "false"}
    THEN ParseOk(SBool(tokens[1] = "true"), Tail(tokens))
    ELSE IF tokens[1] \in Keywords THEN ParseErr(Error("KeywordAsVar", tokens[1]))
    ELSE IF tokens[1] \in IdTokens THEN ParseOk(SVar(tokens[1]), Tail(tokens))
    ELSE IF tokens[1] = "("
    THEN Only({IF ps.err = NoError THEN ParseLambda(ps)
               ELSE IF ps.err.kind = "UnexpectedToken" THEN ParseParenthesized(Tail(tokens))
               ELSE ParseErr(ps.err) :
               ps \in {ParseParams(Tail(tokens))}})
    ELSE IF tokens[1] \in NumTokens THEN ParseOk(SNum(NumberOf(tokens[1])), Tail(tokens))
    ELSE ParseErr(UnexpectedToken(tokens))

\* An expression followed by the optional semicolon, made the expression
\* of the statement.
ExprThenSemicolon(tokens, parse_semicolon, statement) ==
    Only({IF e.err # NoError THEN StatementErr(e.err)
          ELSE LET semi == ConditionallyConsumeSemicolon(e.rest, parse_semicolon) IN
               IF semi.err # NoError THEN StatementErr(semi.err)
               ELSE StatementOk([statement EXCEPT !.expr = e.expr], semi.rest) :
          e \in {ParseExpr(tokens)}})

\* parse_statement(tokens, true) then ensure_block
ParseBlock(tokens) ==
    Only({EnsureBlock(statement_option) :
          statement_option \in {ParseStatement(tokens, TRUE)}})

\* An expression in parentheses, the "(" consumed, then a block.
CondThenBlock(tokens) ==
    Only({IF c.err # NoError THEN [err |-> c.err]
          ELSE LET close == ConsumeToken(")", c.rest) IN
               IF close.err # NoError THEN [err |-> close.err]
               ELSE Only({IF b.err # NoError THEN [err |-> b.err]
                          ELSE [err |-> NoError, cond |-> c.expr,
                                block |-> b.statement, rest |-> b.rest] :
                          b \in {ParseBlock(close.rest)}}) :
          c \in {ParseExpr(tokens)}})

SIf(cond, then_block, else_ifs, else_option) ==
    [k |-> "SIf", cond |-> cond, then_block |-> then_block,
     else_ifs |-> else_ifs, else_option |-> else_option]
SOperatorAssignment(op, id, expr) ==
    [k |-> "SOperatorAssignment", op |-> op, id |-> id, expr |-> expr]

\* parse_statement (if): the else-if branches
RECURSIVE ElseIfs(_)
ElseIfs(tokens) ==
    IF Len(tokens) >= 3 /\ tokens[1] = "else" /\ tokens[2] = "if" /\ tokens[3] = "("
    THEN Only({IF b.err # NoError THEN ListErr(b.err)
               ELSE Only({IF more.err # NoError THEN more
                          ELSE ListOk(<<[cond |-> b.cond, block |-> b.block]>>
                                          \o more.list,
                                      more.rest) :
                          more \in {ElseIfs(b.rest)}}) :
               b \in {CondThenBlock(SubSeq(tokens, 4, Len(tokens)))}})
    ELSE ListOk(<<>>, tokens)

\* parse_statement (for), from the step statement on: init and stop parsed
ForStepAndBody(init, stop, tokens) ==
    Only({IF step.err # NoError THEN step
          ELSE IF ~step.some THEN StatementErr(Error("ExpectedStatement", ""))
          ELSE IF ~IsAssignment(step.statement)
          THEN StatementErr(Error("ExpectedAssignment", ""))
          ELSE LET close == ConsumeToken(")", step.rest) IN
               IF close.err # NoError THEN StatementErr(close.err)
               ELSE Only({IF body.err # NoError THEN body
                          ELSE StatementOk(SFor(init, stop, step.statement,
                                                body.statement),
                                           body.rest) :
                          body \in {ParseBlock(close.rest)}}) :
          step \in {ParseStatement(tokens, FALSE)}})

\* parse_statement (for), the "for (" consumed.  The body is kept as the
\* block it was parsed as.
ParseFor(tokens) ==
    Only({IF init.err # NoError THEN init
          ELSE IF ~init.some THEN StatementErr(Error("ExpectedStatement", ""))
          ELSE IF ~IsAssignmentOrInitialization(init.statement)
          THEN StatementErr(Error("ExpectedAssignmentOrInitialization", ""))
          ELSE Only({IF stop.err # NoError THEN StatementErr(stop.err)
                     ELSE LET semi == ConsumeToken(";", stop.rest) IN
                          IF semi.err # NoError THEN StatementErr(semi.err)
                          ELSE ForStepAndBody(init.statement, stop.expr, semi.rest) :
                     stop \in {ParseExpr(init.rest)}}) :
          init \in {ParseStatement(tokens, TRUE)}})

\* parse_statement (if), the else block: then_block and else_ifs parsed
ElseBlock(then_block, else_ifs) ==
    IF else_ifs.rest # <<>> /\ else_ifs.rest[1] = "else"
    THEN Only({IF else_block.err # NoError THEN else_block
               ELSE StatementOk(SIf(then_block.cond, then_block.block, else_ifs.list,
                                    <<else_block.statement>>),
                                else_block.rest) :
               else_block \in {ParseBlock(Tail(else_ifs.rest))}})
    ELSE StatementOk(SIf(then_block.cond, then_block.block, else_ifs.list, <<>>),
                     else_ifs.rest)

\* parse_statement (if), the "if (" consumed
ParseIf(tokens) ==
    Only({IF then_block.err # NoError THEN StatementErr(then_block.err)
          ELSE Only({IF else_ifs.err # NoError THEN StatementErr(else_ifs.err)
                     ELSE ElseBlock(then_block, else_ifs) :
                     else_ifs \in {ElseIfs(then_block.rest)}}) :
          then_block \in {CondThenBlock(tokens)}})

\* parse_statement
ParseStatement(tokens, parse_semicolon) ==
    LET n == Len(tokens)
        rest2 == SubSeq(tokens, 3, n)
        rest3 == SubSeq(tokens, 4, n)
    IN
    IF n >= 1 /\ tokens[1] = "}" THEN StatementNone(Tail(tokens))
    ELSE IF n >= 2 /\ tokens[1] \in {"let", "const"} /\ tokens[2] \in Keywords
    THEN StatementErr(Error("KeywordAsVar", tokens[2]))
    ELSE IF n >= 3 /\ tokens[1] = "let" /\ tokens[2] \in IdTokens /\ tokens[3] = "="
    THEN ExprThenSemicolon(rest3, parse_semicolon, SLet(tokens[2], NoExpr))
    ELSE IF n >= 3 /\ tokens[1] = "const" /\ tokens[2] \in IdTokens /\ tokens[3] = "="
    THEN ExprThenSemicolon(rest3, parse_semicolon, SConst(tokens[2], NoExpr))
    ELSE IF n >= 2 /\ tokens[1] \in Keywords /\ tokens[2] = "="
    THEN StatementErr(Error("KeywordAsVar", tokens[1]))
    ELSE IF n >= 2 /\ tokens[1] \in IdTokens /\ tokens[2] = "="
    THEN ExprThenSemicolon(rest2, parse_semicolon, SAssign(tokens[1], NoExpr))
    ELSE IF n >= 2 /\ tokens[1] \in IdTokens /\ tokens[2] \in {"+=", "-="}
    THEN ExprThenSemicolon(rest2, parse_semicolon,
                           SOperatorAssignment(tokens[2], tokens[1], NoExpr))
    ELSE IF n >= 2 /\ tokens[1] = "if" /\ tokens[2] = "(" THEN ParseIf(rest2)
    ELSE IF n >= 2 /\ tokens[1] = "while" /\ tokens[2] = "("
    THEN Only({IF w.err # NoError THEN StatementErr(w.err)
               ELSE StatementOk(SWhile(w.cond, w.block), w.rest) :
               w \in {CondThenBlock(rest2)}})
    ELSE IF n >= 2 /\ tokens[1] = "for" /\ tokens[2] = "(" THEN ParseFor(rest2)
    ELSE IF n >= 2 /\ tokens[1] = "return" /\ tokens[2] = ";"
    THEN StatementOk(SReturn(<<>>), rest2)
    ELSE IF n >= 1 /\ tokens[1] = "return"
    THEN Only({IF r.err # NoError THEN r
               ELSE StatementOk(SReturn(<<r.statement.expr>>), r.rest) :
               r \in {ExprThenSemicolon(Tail(tokens), TRUE, SExpr(NoExpr))}})
    ELSE IF n >= 1 /\ tokens[1] \in {"break", "continue"}
    THEN LET semi == ConsumeToken(";", Tail(tokens)) IN
         IF semi.err # NoError THEN StatementErr(semi.err)
         ELSE StatementOk(IF tokens[1] = "break" THEN SBreak ELSE SContinue, semi.rest)
    ELSE IF n >= 1 /\ tokens[1] = "{"
    THEN Only({IF b.err # NoError THEN StatementErr(b.err)
               ELSE StatementOk(SBlock(b.list), b.rest) :
               b \in {ParseStatements(Tail(tokens))}})
    ELSE ExprThenSemicolon(tokens, parse_semicolon, SExpr(NoExpr))

\* parse_statements
ParseStatements(tokens) ==
    Only({IF first.err # NoError THEN ListErr(first.err)
          ELSE IF ~first.some THEN ListOk(<<>>, first.rest)
          ELSE Only({IF more.err # NoError THEN more
                     ELSE ListOk(<<first.statement>> \o more.list, more.rest) :
                     more \in {ParseStatements(first.rest)}}) :
          first \in {ParseStatement(tokens, TRUE)}})

\* parse_proc
SugaredProcedure(name, params, body) == [name |-> name, params |-> params, body |-> body]

NoProc(e, tokens) == [err |-> e, some |-> FALSE, rest |-> tokens]

ParseProc(tokens) ==
    LET n == Len(tokens) IN
    IF n >= 3 /\ tokens[1] = "proc" /\ tokens[2] \in Keywords /\ tokens[3] = "("
    THEN NoProc(Error("KeywordAsProc", tokens[2]), <<>>)
    ELSE IF n >= 3 /\ tokens[1] = "proc" /\ tokens[2] \in IdTokens /\ tokens[3] = "("
    THEN Only({IF ps.err # NoError THEN NoProc(ps.err, <<>>)
               ELSE Only({IF body.err # NoError THEN NoProc(body.err, <<>>)
                          ELSE [err |-> NoError, some |-> TRUE,
                                proc |-> SugaredProcedure(tokens[2], ps.list,
                                                          body.statement),
                                rest |-> body.rest] :
                          body \in {ParseBlock(ps.rest)}}) :
               ps \in {ParseParams(SubSeq(tokens, 4, n))}})
    ELSE NoProc(NoError, tokens)

\* parse_procs
RECURSIVE ParseProcs(_)
ParseProcs(tokens) ==
    Only({IF first.err # NoError THEN ListErr(first.err)
          ELSE IF ~first.some THEN ListOk(<<>>, first.rest)
          ELSE Only({IF more.err # NoError THEN more
                     ELSE IF \E i \in 1..Len(more.list) :
                                more.list[i].name = first.proc.name
                     THEN ListErr(Error("MultipleSameNamedProcs", first.proc.name))
                     ELSE ListOk(<<first.proc>> \o more.list, more.rest) :
                     more \in {ParseProcs(first.rest)}}) :
          first \in {ParseProc(tokens)}})

\* The program of the procedures parsed: main the body of a procedure of
\* mains, the others its procedures.
ProgramOf(procs, mains) ==
    IF procs.err # NoError THEN [err |-> procs.err]
    ELSE IF procs.rest # <<>> THEN [err |-> UnexpectedToken(procs.rest)]
    ELSE IF mains = {} THEN [err |-> Error("NoMain", "")]
    ELSE [err |-> NoError,
          procedures |-> {procs.list[i] : i \in (1..Len(procs.list)) \ mains},
          main |-> procs.list[CHOOSE i \in mains : \A j \in mains : i <= j].body]

\* parse_program taking as main only a procedure without parameters.
ParseProgramMainNoParams(tokens) ==
    Only({ProgramOf(procs, {i \in 1..Len(procs.list) :
                               /\ procs.list[i].name = "main"
                               /\ procs.list[i].params = <<>>}) :
          procs \in {ParseProcs(tokens)}})

\* parse_program
ParseProgram(tokens) ==
    Only({ProgramOf(procs, {i \in 1..Len(procs.list) : procs.list[i].name = "main"}) :
          procs \in {ParseProcs(tokens)}})

\* The token sequences parsed.  Each input records the shape it was
\* written to, with the parts it was put together from.
MaxProcs == 4

BinaryOpTokens ==
    {"+", "-", "*", "%", "/", "==", "!=", "<", ">", "<=", ">=", "||", "&&"}

\* x op1 y op2 1
ChainInputs ==
    {[shape |-> "Chain", tokens |-> <<"x", op1, "y", op2, "1">>] :
        op1 \in BinaryOpTokens, op2 \in BinaryOpTokens}

\* -x op y and !x op y
UnaryInputs ==
    {[shape |-> "Unary", tokens |-> <<u, "x", op, "y">>] :
        u \in {"-", "!"}, op \in BinaryOpTokens}

\* ( inner ) suffix
ParenInners ==
    {<<"x">>, <<"1">>, <<"true", "&&", "y">>, <<"1", "+", "2">>, <<"x", "+", "1">>,
     <<"x", "<", "y">>, <<"-", "x">>, <<"x", "(", ")">>}

ParenSuffixes == {<<>>, <<"+", "1">>, <<"*", "y">>}

ParenInputs ==
    {[shape |-> "Paren", inner |-> inner, suffix |-> suffix,
      tokens |-> <<"(">> \o inner \o <<")">> \o suffix] :
        inner \in ParenInners, suffix \in ParenSuffixes}

\* ( params ) -> body, and proc main ( params ) body, the body a block or
\* another statement
ParamLists == {<<")">>, <<"x", ")">>, <<"x", ",", "y", ")">>}

BlockBodies == {<<"{", "}">>, <<"{", "x", ";", "}">>, <<"{", "return", "1", ";", "}">>}

OtherBodies ==
    {<<"x">>, <<"break", ";">>, <<"continue", ";">>, <<"return", ";">>,
     <<"return", "1", ";">>, <<"x", "=", "1">>, <<"let", "x", "=", "1">>,
     <<"if", "(", "true", ")", "{", "}">>, <<"while", "(", "true", ")", "{", "}">>}

LambdaInputs ==
    {[shape |-> "Lambda", body |-> body,
      tokens |-> <<"(">> \o params \o <<"->">> \o body] :
        params \in ParamLists, body \in BlockBodies \cup OtherBodies}

\* The statement with the semicolon that ends it where statements are parsed
\* with parse_semicolon (break, continue and return carry theirs).
Terminated(body) ==
    IF body[1] \in {"x", "let"} THEN body \o <<";">> ELSE body

ProcInputs ==
    {[shape |-> "Proc", body |-> body,
      tokens |-> <<"proc", "main", "(">> \o params \o Terminated(body)] :
        params \in ParamLists, body \in BlockBodies \cup OtherBodies}

\* Up to MaxProcs procedures with empty bodies, all with the same parameters.
ParsedProcNames == {"main", "p", "q"}

RECURSIVE ProcsTokens(_, _)
ProcsTokens(names, params) ==
    IF names = <<>> THEN <<>>
    ELSE <<"proc", names[1], "(">> \o params \o <<"{", "}">>
         \o ProcsTokens(Tail(names), params)

ProgramInputs ==
    {[shape |-> "Program", names |-> names, tokens |-> ProcsTokens(names, params)] :
        names \in UNION {[1..n -> ParsedProcNames] : n \in 0..MaxProcs},
        params \in ParamLists}

\* A program of one procedure cut off after each of its tokens but the last.
FullPrograms ==
    {<<"proc", "main", "(", ")", "{",
         "let", "x", "=", "1", ";",
         "if", "(", "x", "<", "2", ")", "{", "x", "=", "2", ";", "}",
         "else", "if", "(", "true", ")", "{", "}", "else", "{", "}",
         "while", "(", "true", ")", "{", "break", ";", "}",
         "return", "x", ";", "}">>,
     <<"proc", "p", "(", "x", ",", "y", ")", "{",
         "for", "(", "let", "x", "=", "1", ";", "x", "<", "2", ";", "x", "++", ")", "{",
             "print", "(", "x", ",", "y", ")", ";", "}",
         "const", "q", "=", "(", "x", ")", "->", "{", "}", ";",
         "x", "+=", "-", "q", "(", ")", ";", "}">>}

TruncatedInputs ==
    UNION {{[shape |-> "Truncated", full |-> full, tokens |-> SubSeq(full, 1, n)] :
               n \in 1..(Len(full) - 1)} : full \in FullPrograms}

\* proc main ( ) { for ( init stop ; step ) { } }, the init and the step a
\* let, a const, an assignment-like statement or another statement.
ForInitTokens ==
    {[kind |-> "let", tokens |-> <<"let", "x", "=", "1", ";">>],
     [kind |-> "const", tokens |-> <<"const", "x", "=", "1", ";">>],
     [kind |-> "assignment", tokens |-> <<"x", "=", "1", ";">>],
     [kind |-> "assignment", tokens |-> <<"x", "+=", "1", ";">>],
     [kind |-> "assignment", tokens |-> <<"x", "++", ";">>],
     [kind |-> "assignment", tokens |-> <<"--", "x", ";">>],
     [kind |-> "other", tokens |-> <<"x", ";">>],
     [kind |-> "other", tokens |-> <<"x", "+", "1", ";">>],
     [kind |-> "other", tokens |-> <<"-", "x", ";">>],
     [kind |-> "other", tokens |-> <<"p", "(", ")", ";">>],
     [kind |-> "other", tokens |-> <<"break", ";">>],
     [kind |-> "other", tokens |-> <<"return", ";">>],
     [kind |-> "other", tokens |-> <<"{", "}">>]}

ForStepTokens ==
    {[kind |-> "let", tokens |-> <<"let", "x", "=", "1">>],
     [kind |-> "const", tokens |-> <<"const", "x", "=", "1">>],
     [kind |-> "assignment", tokens |-> <<"x", "=", "2">>],
     [kind |-> "assignment", tokens |-> <<"x", "-=", "1">>],
     [kind |-> "assignment", tokens |-> <<"x", "--">>],
     [kind |-> "assignment", tokens |-> <<"++", "x">>],
     [kind |-> "other", tokens |-> <<"x">>],
     [kind |-> "other", tokens |-> <<"x", "+", "1">>],
     [kind |-> "other", tokens |-> <<"p", "(", ")">>],
     [kind |-> "other", tokens |-> <<"{", "}">>]}

ForInputs ==
    {[shape |-> "For", init |-> init.kind, step |-> step.kind,
      tokens |-> <<"proc", "main", "(", ")", "{", "for", "(">> \o init.tokens
                    \o <<"x", "<", "2", ";">> \o step.tokens
                    \o <<")", "{", "}", "}">>] :
        init \in ForInitTokens, step \in ForStepTokens}

ExprInputs == ChainInputs \cup UnaryInputs \cup ParenInputs \cup LambdaInputs

InitParse ==
    /\ stack = <<>>
    /\ sig = Normal
    /\ err = NoError
    /\ fuel = 0
    /\ last \in {[op |-> "Tokenized", input |-> input, result |-> NoResult] :
                    input \in ExprInputs \cup ProcInputs \cup ProgramInputs
                                             \cup TruncatedInputs \cup ForInputs}

ParseExpression ==
    /\ last.op = "Tokenized"
    /\ last.input \in ExprInputs
    /\ last' = [last EXCEPT !.op = "ParsedExpr", !.result = ParseExpr(last.input.tokens)]
    /\ UNCHANGED <<stack, sig, err, fuel>>

ParseTheProgram ==
    /\ last.op = "Tokenized"
    /\ last.input \in ProcInputs \cup ProgramInputs \cup TruncatedInputs \cup ForInputs
    /\ last' = [last EXCEPT !.op = "ParsedProgram",
                            !.result = ParseProgram(last.input.tokens)]
    /\ UNCHANGED <<stack, sig, err, fuel>>

NextParse == ParseExpression \/ ParseTheProgram

SpecParse == InitParse /\ [][NextParse]_vars

\* ---------------------------------------------------------------- conditionals
\* The branch an if takes on a true condition is its else.
BranchInverted(cond_bool, then_statement, else_option) ==
    IF ~cond_bool THEN <<then_statement>> ELSE else_option

\* if cond_bool { then_statement } else { match else_statement_option .. }:
\* the statement interpreted next, none when a false condition has no else.
Branch(cond_bool, then_statement, else_option) ==
    IF cond_bool THEN <<then_statement>> ELSE else_option

\* interp_statement on an if chain, up to the block it comes to interpret:
\* evaluated lists the conditions evaluated, chosen is the block, none when
\* the chain yields (Nil, Normal) without interpreting a block.
IfResult(e, env, evaluated, chosen) ==
    [err |-> e, env |-> env, evaluated |-> evaluated, chosen |-> chosen]

RECURSIVE InterpIf(_, _, _)
InterpIf(env, statement, evaluated) ==
    IF statement.k # "If" THEN IfResult(NoError, env, evaluated, <<statement>>)
    ELSE Only({IF c.err # NoError
               THEN IfResult(c.err, c.env, Append(evaluated, statement.cond), <<>>)
               ELSE IF c.value.t # "Bool"
               THEN IfResult(Error("BadArg", c.value.t), c.env,
                             Append(evaluated, statement.cond), <<>>)
               ELSE LET next == Branch(c.value.b, statement.then_statement,
                                       statement.else_option)
                    IN  IF next = <<>>
                        THEN IfResult(NoError, c.env, Append(evaluated, statement.cond),
                                      <<>>)
                        ELSE InterpIf(c.env, next[1], Append(evaluated, statement.cond)) :
               c \in {InterpExpression(env, statement.cond)}})

\* The chains interpreted: conditions true, false, nil, and two that count
\* their evaluations in x (x++ < 0 is false, x++ < 9 true); the block of
\* the i-th condition is { i; }, the else block { 0; }.
CountedFalse == SBinary("LT", SUnary("PostIncrement", SVar("x")), SNum(0))
CountedTrue == SBinary("LT", SUnary("PostIncrement", SVar("x")), SNum(9))

IfConds == {SBool(TRUE), SBool(FALSE), CountedFalse, CountedTrue, SVar("n")}

IfBlock(i) == SBlock(<<SExpr(SNum(i))>>)

IfChain(conds, has_else) ==
    SIf(conds[1], IfBlock(1),
        [i \in 1..(Len(conds) - 1) |-> [cond |-> conds[i + 1], block |-> IfBlock(i + 1)]],
        IF has_else THEN <<IfBlock(0)>> ELSE <<>>)

IfEnv ==
    InsertNewMutableValue(InsertNewMutableValue(NewEnvironment, "x", Num(0)), "n", Nil)

InitIf ==
    /\ stack = <<>>
    /\ sig = Normal
    /\ err = NoError
    /\ fuel = 0
    /\ last \in {[op |-> "Parsed", conds |-> conds, has_else |-> has_else,
                   statement |-> IfChain(conds, has_else),
                   desugared |-> NoResult, result |-> NoResult] :
                    conds \in UNION {[1..n -> IfConds] : n \in 1..(MaxElseIfs + 1)},
                    has_else \in BOOLEAN}

DesugarIf ==
    /\ last.op = "Parsed"
    /\ last' = [last EXCEPT !.op = "Desugared",
                            !.desugared = DesugarStatement(last.statement)]
    /\ UNCHANGED <<stack, sig, err, fuel>>

InterpretIf ==
    /\ last.op = "Desugared"
    /\ last' = [last EXCEPT !.op = "Interpreted",
                            !.result = InterpIf(IfEnv, last.desugared, <<>>)]
    /\ UNCHANGED <<stack, sig, err, fuel>>

NextIf == DesugarIf \/ InterpretIf

SpecIf == InitIf /\ [][NextIf]_vars

\* ---------------------------------------------------------------- ++ and --
\* The operands and the bindings of x that ++ and -- are evaluated on.
UnaryOperands == {EVar("x"), ENum(1), EBool(TRUE), EUnary("PreIncrement", EVar("x"))}

UnaryValues == {Num(0), Num(2), Nil, Bool(TRUE), List(<<Num(1)>>)}

UnaryEnvs ==
    {InsertNewMutableValue(NewEnvironment, "x", v) : v \in UnaryValues}
        \cup {InsertNewConstantValue(NewEnvironment, "x", v) : v \in UnaryValues}
        \cup {Reassign(InsertNewMutableValue(NewEnvironment, "x", Nil), "x", v).env :
                  v \in UnaryValues}

InitUnary ==
    /\ stack = <<>>
    /\ sig = Normal
    /\ err = NoError
    /\ fuel = 0
    /\ last \in {[op |-> "Desugared", env |-> env, expr |-> EUnary(o, operand),
                   result |-> NoResult] :
                    env \in UnaryEnvs, o \in IncDecOps, operand \in UnaryOperands}

InterpretUnary ==
    /\ last.op = "Desugared"
    /\ last' = [last EXCEPT !.op = "Interpreted",
                            !.result = InterpExpression(last.env, last.expr)]
    /\ UNCHANGED <<stack, sig, err, fuel>>

NextUnary == InterpretUnary

SpecUnary == InitUnary /\ [][NextUnary]_vars

\* ---------------------------------------------------------------- list builtins
MaxArgs == 2

EPrimitiveCall(builtin, args) == [k |-> "PrimitiveCall", builtin |-> builtin, args |-> args]

\* ensure_single_arg: the name and the two counts are the ones the function
\* passes to ArgMismatch, whichever builtin is called.
EnsureSingleArg(args) ==
    IF Len(args) > 1
    THEN [err |-> ArgMismatchError("is_empty", Len(args), 1), arg |-> ENil]
    ELSE IF Len(args) = 0
    THEN [err |-> ArgMismatchError("is_empty", 0, 1), arg |-> ENil]
    ELSE [err |-> NoError, arg |-> args[1]]

\* ensure_list
EnsureList(value) ==
    IF value.t = "List" THEN [err |-> NoError, list |-> value.items]
    ELSE [err |-> Error("ExpectedList", value.t), list |-> <<>>]

\* Builtin::Head, the argument being the list
HeadOf(list) == IF list = <<>> THEN Nil ELSE list[1]

\* rest that yields the empty list for the empty list.
RestOfEmptyIsEmpty(list) == IF list = <<>> THEN List(<<>>) ELSE List(Tail(list))

\* Builtin::Rest, the argument being the list
RestOf(list) == IF list = <<>> THEN Nil ELSE List(Tail(list))

\* Expr::PrimitiveCall for IsEmpty, IsNil, Head and Rest
PrimitiveCall(env, builtin, args) ==
    LET single == EnsureSingleArg(args) IN
    IF single.err # NoError THEN [err |-> single.err, value |-> Nil, env |-> env]
    ELSE LET a == InterpExpression(env, single.arg) IN
         IF a.err # NoError THEN [err |-> a.err, value |-> Nil, env |-> a.env]
         ELSE IF builtin = "IsNil"
         THEN [err |-> NoError, value |-> Bool(a.value = Nil), env |-> a.env]
         ELSE LET l == EnsureList(a.value) IN
              IF l.err # NoError THEN [err |-> l.err, value |-> Nil, env |-> a.env]
              ELSE [err |-> NoError,
                    value |-> CASE builtin = "IsEmpty" -> Bool(l.list = <<>>)
                                [] builtin = "Head" -> HeadOf(l.list)
                                [] builtin = "Rest" -> RestOf(l.list),
                    env |-> a.env]

ListBuiltins == {"IsEmpty", "IsNil", "Head", "Rest"}

\* The environment the builtins are called in: one variable per kind of
\* value, lists of zero, one and two elements among them.
BuiltinValues ==
    [e |-> List(<<>>), l |-> List(<<Num(1)>>), m |-> List(<<Nil, List(<<>>)>>),
     n |-> Nil, k |-> Num(4), b |-> Bool(FALSE), s |-> Str(<<"a">>)]

BuiltinEnv ==
    [NewEnvironment EXCEPT
        !.values = [v \in DOMAIN BuiltinValues |->
                       Entry(BuiltinValues[v], "Initialized", "Mutable")]]

BuiltinArgs == {EVar(v) : v \in DOMAIN BuiltinValues} \cup {EVar("u"), ENum(3)}

BuiltinArgLists == UNION {[1..n -> BuiltinArgs] : n \in 0..MaxArgs}

InitBuiltins ==
    /\ stack = <<>>
    /\ sig = Normal
    /\ err = NoError
    /\ fuel = 0
    /\ last \in {[op |-> "Desugared", env |-> BuiltinEnv, expr |-> EPrimitiveCall(b, args),
                   result |-> NoResult] : b \in ListBuiltins, args \in BuiltinArgLists}

InterpretBuiltin ==
    /\ last.op = "Desugared"
    /\ last' = [last EXCEPT !.op = "Interpreted",
                            !.result = PrimitiveCall(last.env, last.expr.builtin,
                                                     last.expr.args)]
    /\ UNCHANGED <<stack, sig, err, fuel>>

NextBuiltins == InterpretBuiltin

SpecBuiltins == InitBuiltins /\ [][NextBuiltins]_vars

\* ---------------------------------------------------------------- tokenizer
\* A source line is the sequence of its characters.
MaxChars == 3

Letters ==
    {"a", "b", "c", "d", "e", "f", "g", "h", "i", "j", "k", "l", "m", "n", "o", "p", "q",
     "r", "s", "t", "u", "v", "w", "x", "y", "z", "A", "B", "C", "D", "E"}

Digits == {"0", "1", "2", "3", "4", "5", "6", "7", "8", "9"}

\* [[:space:]]
Spaces == {" "}

\* [a-zA-Z0-9_]
WordChars == Letters \cup Digits \cup {"_"}

\* The keywords in the order get_token_value tries them.
KeywordTexts ==
    << <<"i", "f">>, <<"e", "l", "s", "e">>, <<"p", "r", "o", "c">>, <<"l", "e", "t">>,
       <<"t", "r", "u", "e">>, <<"f", "a", "l", "s", "e">>,
       <<"r", "e", "t", "u", "r", "n">>, <<"w", "h", "i", "l", "e">>,
       <<"b", "r", "e", "a", "k">>, <<"c", "o", "n", "t", "i", "n", "u", "e">>,
       <<"f", "o", "r">>, <<"c", "o", "n", "s", "t">> >>

\* find(text, s) for a literal text: the regex ^(text) matches when s starts
\* with the text.
StartsWith(s, text) == Len(s) >= Len(text) /\ SubSeq(s, 1, Len(text)) = text

\* The length of the longest prefix of s whose characters are all in chars.
RECURSIVE Run(_, _)
Run(s, chars) ==
    IF s = <<>> \/ Head(s) \notin chars THEN 0 ELSE 1 + Run(Tail(s), chars)

Drop(s, n) == SubSeq(s, n + 1, Len(s))

\* The first keyword of KeywordTexts, from the i-th on, that s starts with;
\* 0 when there is none.
RECURSIVE FindKeyword(_, _)
FindKeyword(s, i) ==
    IF i > Len(KeywordTexts) THEN 0
    ELSE IF StartsWith(s, KeywordTexts[i]) THEN i
    ELSE FindKeyword(s, i + 1)

\* find(ID_REGEX, s), ID_REGEX = ([a-zA-Z][a-zA-Z0-9_]*)\b: the length of the
\* match, 0 for no match.  The characters of the model are ASCII, so the end
\* of the longest run of [a-zA-Z0-9_] is a word boundary.
FindId(s) == IF s # <<>> /\ Head(s) \in Letters THEN Run(s, WordChars) ELSE 0

\* find(NUM_REGEX, s), NUM_REGEX = \d*\.?\d+: the length of the match, 0 for
\* no match.
FindNum(s) ==
    LET whole == Run(s, Digits)
        after == Drop(s, whole)
        fraction == IF after # <<>> /\ Head(after) = "." THEN Run(Tail(after), Digits) ELSE 0
    IN  IF fraction > 0 THEN whole + 1 + fraction ELSE whole

TokenKW(text) == [t |-> "KW", v |-> text]
TokenID(text) == [t |-> "ID", v |-> text]
\* NUM carries the matched digits.
TokenNUM(text) == [t |-> "NUM", v |-> text]
NoTokenValue == [t |-> "None", v |-> <<>>]

\* Token(value, line, column)
Token(value, line_num, col_num) ==
    [value |-> value, line |-> line_num, col |-> col_num]

\* UnknownToken carries s up to its first whitespace.
UnknownToken(s) == [kind |-> "UnknownToken", arg |-> SubSeq(s, 1, Run(s, WordChars \cup {"."}))]

\* get_token_value for a non-empty s.  The lines of the model hold letters,
\* digits, "_", "." and blanks, so none of the branches for operators and
\* punctuation matches.
GetTokenValue(s) ==
    IF Run(s, Spaces) > 0
    THEN [err |-> NoError, value |-> NoTokenValue, length |-> Run(s, Spaces)]
    ELSE IF FindKeyword(s, 1) > 0
    THEN [err |-> NoError, value |-> TokenKW(KeywordTexts[FindKeyword(s, 1)]),
          length |-> Len(KeywordTexts[FindKeyword(s, 1)])]
    ELSE IF FindId(s) > 0
    THEN [err |-> NoError, value |-> TokenID(SubSeq(s, 1, FindId(s))), length |-> FindId(s)]
    ELSE IF FindNum(s) > 0
    THEN [err |-> NoError, value |-> TokenNUM(SubSeq(s, 1, FindNum(s))), length |-> FindNum(s)]
    ELSE [err |-> UnknownToken(s), value |-> NoTokenValue, length |-> 0]

\* tokenize_helper
RECURSIVE TokenizeHelper(_, _, _)
TokenizeHelper(s, line_num, col_num) ==
    IF Len(s) = 0 THEN [err |-> NoError, tokens |-> <<>>]
    ELSE Only({
        IF got.err # NoError THEN [err |-> got.err, tokens |-> <<>>]
        ELSE Only({
            IF rest.err # NoError THEN rest
            ELSE IF got.value = NoTokenValue THEN rest
            ELSE [err |-> NoError,
                  tokens |-> <<Token(got.value, line_num, col_num)>> \o rest.tokens] :
            rest \in {TokenizeHelper(Drop(s, got.length), line_num, col_num + got.length)}}) :
        got \in {GetTokenValue(s)}})

\* tokenize for a source of one line
Tokenize(s) == TokenizeHelper(s, 1, 1)

\* The lines that are tokenized: every line of up to MaxChars characters of
\* TokenizerChars, and some longer words.
TokenizerChars == {"i", "f", "a", "1", "_", " "}

TokenizerWords ==
    { <<"l", "e", "t">>, <<"l", "e", "t", "t", "e", "r">>, <<"f", "o", "r">>,
      <<"f", "o", "r", "m", "a", "t">>, <<"c", "o", "n", "s", "t">>,
      <<"c", "o", "n", "s", "t", "a", "n", "t">>, <<"c", "o", "n", "t", "i", "n", "u", "e">>,
      <<"c", "o", "n", "t", "i", "n", "u", "e", "d">>, <<"e", "l", "s", "e">>,
      <<"a", "b", "c", "_", "1", "2">>, <<"A", "b", "C">>, <<"a", "B", "c", "_">>,
      <<"1", "2", "3", "4", "5">>, <<"1", ".", "5">>, <<"_", "a", "b", "c">>,
      <<"1", "2", "a", "b">> }

TokenizerLines ==
    UNION {[1..n -> TokenizerChars] : n \in 1..MaxChars} \cup TokenizerWords

InitTokenize ==
    /\ stack = <<>>
    /\ sig = Normal
    /\ err = NoError
    /\ fuel = 0
    /\ last \in {[op |-> "Source", s |-> s, result |-> NoResult] : s \in TokenizerLines}

TokenizeTheLine ==
    /\ last.op = "Source"
    /\ last' = [last EXCEPT !.op = "Tokenized", !.result = Tokenize(last.s)]
    /\ UNCHANGED <<stack, sig, err, fuel>>

NextTokenize == TokenizeTheLine

SpecTokenize == InitTokenize /\ [][NextTokenize]_vars

\* ---------------------------------------------------------------- properties
\* The activation whose environment the next statement runs on.
EnvIdx == IF Top.kind = "While" THEN ParentIdx(Len(stack)) ELSE Len(stack)

\* This step leaves the top block without an error.
BlockLeft ==
    /\ Running
    /\ Top.kind = "Block"
    /\ err' = NoError
    /\ Len(stack') = Len(stack) - 1

\* The bindings of the enclosing scope the top block assigned hold, after
\* this step, the values the block assigned last.
AssignedWrittenBack ==
    LET pi == ParentIdx(Len(stack)) IN
    \A n \in DOMAIN Top.assigned :
        (ContainsKey(stack[pi].env, n) /\ stack[pi].env.values[n].mutability = "Mutable")
            => stack'[pi].env.values[n].value = Top.assigned[n]

\* C1: when a block completes, every name bound mutably in the enclosing
\* scope that the block assigned reads, in the enclosing scope, the value
\* the block assigned to the outer binding last.
C1Claim == [][BlockLeft => AssignedWrittenBack]_vars

\* C2: when a block that re-declared a name of the enclosing scope
\* completes, the enclosing binding holds the value it had when the inner
\* declaration was executed, whatever the block did with the inner name.
C2Claim ==
    [][BlockLeft =>
        LET pi == ParentIdx(Len(stack)) IN
        \A n \in Top.declared :
            ContainsKey(stack[pi].env, n)
                => stack'[pi].env.values[n].value =
                       IF n \in DOMAIN Top.assigned THEN Top.assigned[n]
                       ELSE stack[pi].env.values[n].value]_vars

\* The body of a procedure value held in a variable has just been entered.
LambdaEntered ==
    /\ Running
    /\ last.op = "Call" /\ last.id \in VarNames
    /\ last.value.t = "Proc" /\ last.value.body = "Block"
    /\ Top.role = "Body" /\ stack[Len(stack) - 1].kind = "Call"

\* C3: the body of a called closure reads, for every captured variable
\* that is not one of its parameters, the value the variable had in the
\* environment the lambda expression was evaluated on, whatever was
\* assigned to it since.
C3Thm ==
    LambdaEntered =>
        LET f == stack[Len(stack) - 1].proc IN
        \A n \in DOMAIN f.env.values :
            (\A i \in 1..Len(f.params) : f.params[i] # n)
                => /\ Get(Top.env, n).err = NoError
                   /\ Get(Top.env, n).value = f.env.values[n].value

\* C3 witness: the closure is called after its captured x was assigned in
\* the defining scope, and its body reads the value from before.
C3Wit ==
    /\ LambdaEntered
    /\ ContainsKey(stack[Len(stack) - 1].proc.env, "x")
    /\ ContainsKey(last.env, "x")
    /\ last.env.values["x"].assignment_type = "Reassigned"
    /\ last.env.values["x"].value # stack[Len(stack) - 1].proc.env.values["x"].value
    /\ Get(Top.env, "x").value = stack[Len(stack) - 1].proc.env.values["x"].value

\* C4: in the body of a called top-level procedure a variable that is not
\* one of its parameters, and so is bound at most in the caller, is
\* unknown.
C4Claim ==
    (/\ Running
     /\ last.op = "Call" /\ last.id \in ProcNames
     /\ last.value.t = "Proc"
     /\ Top.role = "Body")
        => \A n \in VarNames :
              (\A i \in 1..Len(last.value.params) : last.value.params[i] # n)
                  => Get(Top.env, n).err = Error("UnknownVariable", n)

\* C5: a break (continue) executed outside every while body of the
\* running procedure or lambda body ends the program with BreakNotInLoop
\* (ContinueNotInLoop), be it a statement of a block or the whole body of
\* a called lambda.
C5Claim ==
    [][/\ (Running /\ Top.kind = "Block" /\ ~Top.in_loop /\ sig.cf \in {"Break", "Continue"})
            => err' = Error(IF sig.cf = "Break" THEN "BreakNotInLoop"
                                                ELSE "ContinueNotInLoop", "")
       /\ (last'.op = "Call" /\ last'.value.t = "Proc" /\ last'.value.body = "Break")
            => err' = Error("BreakNotInLoop", "")
       /\ (last'.op = "Call" /\ last'.value.t = "Proc" /\ last'.value.body = "Continue")
            => err' = Error("ContinueNotInLoop", "")]_vars

\* C6: a block one of whose statements yielded Return, or Break or
\* Continue inside a loop, is left at once: it runs no further statement,
\* the assignments it made to outer names are written back, and it yields
\* the same signal.
C6Claim ==
    [][(/\ Running
        /\ Top.kind = "Block"
        /\ sig.cf # "Normal"
        /\ (sig.cf = "Return" \/ Top.in_loop))
          => /\ BlockLeft
             /\ sig' = sig
             /\ AssignedWrittenBack]_vars

Nested == Cardinality({i \in 1..Len(stack) : stack[i].kind = "While"}) >= 2

\* C7: in nested while loops a break in the inner body leaves the blocks
\* of the inner body and ends the inner while with Normal, the block of
\* the outer body going on; a Return leaves every block and every loop as
\* Return.
C7Claim ==
    [][(Running /\ Nested) =>
        /\ (Top.kind = "Block" /\ sig.cf \in {"Break", "Return"})
              => BlockLeft /\ sig' = sig
        /\ (Top.kind = "While" /\ sig.cf = "Break")
              => /\ err' = NoError /\ sig' = Normal
                 /\ Len(stack') = Len(stack) - 1
                 /\ stack'[Len(stack')].kind = "Block"
                 /\ ~stack'[Len(stack')].closed
        /\ (Top.kind = "While" /\ sig.cf = "Return")
              => /\ err' = NoError /\ sig' = sig
                 /\ Len(stack') = Len(stack) - 1]_vars

\* An assignment or ++/-- to a name the environment binds has just run.
AssignedBound ==
    /\ last.op \in {"Assign"} \cup IncDecOps
    /\ stack # <<>>
    /\ ContainsKey(last.env, last.id)

NewValue ==
    IF last.op = "Assign" THEN last.value ELSE Num(last.value.n + Delta(last.op))

\* C8 as stated: an assignment or ++/-- on a constant fails with
\* ReassignConstant and changes nothing; on a let binding it succeeds and
\* the new value is read afterwards.
C8Claim ==
    AssignedBound =>
        IF last.env.values[last.id].mutability = "Constant"
        THEN err = Error("ReassignConstant", last.id) /\ Top.env = last.env
        ELSE err = NoError /\ Get(Top.env, last.id).value = NewValue

\* C8: an assignment on a constant fails with ReassignConstant, and so
\* does ++/-- on a constant that holds a number; ++/-- on a constant that
\* holds no number fails with BadArg; the environment is unchanged in every
\* case.  On a let binding an assignment, and ++/-- of a number, succeeds
\* and the new value is read afterwards.
C8Thm ==
    AssignedBound =>
        IF last.op \in IncDecOps /\ last.value.t # "Num"
        THEN err = Error("BadArg", last.value.t) /\ Top.env = last.env
        ELSE IF last.env.values[last.id].mutability = "Constant"
        THEN err = Error("ReassignConstant", last.id) /\ Top.env = last.env
        ELSE err = NoError /\ Get(Top.env, last.id).value = NewValue

\* C8 witness: ++ ran on a constant holding a procedure value, in a block
\* nested in the declaring one.
C8Wit ==
    /\ AssignedBound
    /\ last.op = "PreIncrement"
    /\ last.env.values[last.id].mutability = "Constant"
    /\ last.value.t = "Proc"
    /\ last.id \notin Top.declared
    /\ err = Error("BadArg", "Proc")

\* C9: reassign overwrites a mutable binding and marks it Reassigned; it
\* fails with ReassignConstant on a constant, ReassignTopLevelProc on a
\* name that is only a top-level procedure and UnknownVariable on an
\* unbound name, and a failure leaves values and procedure table alone.
C9Thm ==
    (last.op = "Assign" /\ stack # <<>>) =>
        LET e == last.env
            k == last.id
        IN  IF ContainsKey(e, k) /\ e.values[k].mutability = "Mutable"
            THEN /\ err = NoError
                 /\ Top.env.top_level_procedures = e.top_level_procedures
                 /\ DOMAIN Top.env.values = DOMAIN e.values
                 /\ \A n \in DOMAIN e.values :
                       Top.env.values[n] =
                           IF n = k THEN Entry(last.value, "Reassigned", "Mutable")
                           ELSE e.values[n]
            ELSE /\ Top.env = e
                 /\ err = IF ContainsKey(e, k) THEN Error("ReassignConstant", k)
                          ELSE IF k \in ProcNames THEN Error("ReassignTopLevelProc", k)
                          ELSE Error("UnknownVariable", k)

\* C9 witness: an assignment to a top-level procedure's name failed on an
\* environment that binds a variable.
C9Wit ==
    /\ last.op = "Assign" /\ last.id = "p"
    /\ stack # <<>>
    /\ ContainsKey(last.env, "x")
    /\ err = Error("ReassignTopLevelProc", "p")
    /\ Top.env = last.env

\* A block that declared names its enclosing scope did not bind has just
\* been left.
FreshDropped ==
    /\ Running
    /\ last.op \in {"BlockEnd", "BlockSignal"}
    /\ last.frame.kind = "Block"
    /\ last.frame.fresh # {}

\* C10: after a block, for's block included, the names the block was
\* first to declare are not bound: a read and an assignment in the
\* enclosing scope fail with UnknownVariable.
C10Thm ==
    FreshDropped =>
        \A n \in last.frame.fresh :
            /\ ~ContainsKey(stack[EnvIdx].env, n)
            /\ Get(stack[EnvIdx].env, n).err = Error("UnknownVariable", n)
            /\ Reassign(stack[EnvIdx].env, n, Num(1)).err = Error("UnknownVariable", n)

\* C10 witness: the block a for loop desugars to was left, and the loop
\* variable its init clause declared is unknown in the enclosing block.
C10Wit ==
    /\ FreshDropped
    /\ last.frame.role = "ForInit"
    /\ "x" \in last.frame.fresh
    /\ stack[EnvIdx].kind = "Block"
    /\ Get(stack[EnvIdx].env, "x").err = Error("UnknownVariable", "x")

\* C13: a call whose body reached its end without executing return
\* evaluates to nil, whatever the body's last statement was.
C13Claim ==
    (Running /\ last.op = "CallReturn" /\ last.id = "Normal") => Top.value = Nil

\* A call whose callee evaluated to a procedure value has just run.
Called == last.op = "Call" /\ last.callee.t = "Proc" /\ stack # <<>>

\* C11: a call with a number of arguments other than the number of
\* parameters fails with ArgMismatch(name or "<lambda>", expected, actual),
\* with no argument evaluated and the body not entered.
C11Thm ==
    [][(last'.op = "Call" /\ last'.callee.t = "Proc"
            /\ Len(last'.args) # Len(last'.callee.params)) =>
        /\ err'.kind = "ArgMismatch"
        /\ err'.arg = (IF last'.expr.k = "Var" THEN last'.expr.id ELSE "<lambda>")
        /\ err'.expected = Len(last'.callee.params)
        /\ err'.actual = Len(last'.args)
        /\ stack' = stack]_vars

\* C11 witness: a lambda expression of one parameter was called with two
\* arguments, the first of them x++, and x is as it was.
C11Wit ==
    /\ Called
    /\ last.expr.k = "Lambda"
    /\ Len(last.args) = 2 /\ Len(last.callee.params) = 1
    /\ last.args[1].k = "Unary"
    /\ err.kind = "ArgMismatch" /\ err.arg = "<lambda>"
    /\ Get(Top.env, "x").value = Get(last.env, "x").value

\* The values of the arguments from position i on, and the environment
\* after them, evaluated one after the other from the left.
RECURSIVE LeftToRight(_, _, _)
LeftToRight(env, args, i) ==
    IF i > Len(args) THEN [values |-> <<>>, env |-> env]
    ELSE LET r == InterpExpression(env, args[i])
             rest == LeftToRight(r.env, args, i + 1)
         IN  [values |-> <<r.value>> \o rest.values, env |-> rest.env]

\* The body of a called procedure value has just been entered.
BodyEntered ==
    /\ Called /\ Running
    /\ last.value.t = "Proc" /\ last.value.body = "Block"
    /\ Top.role = "Body" /\ stack[Len(stack) - 1].kind = "Call"

\* The position of the binding a parameter name gets: its last one.
LastParam(params, n) ==
    CHOOSE i \in 1..Len(params) :
        params[i] = n /\ \A j \in (i + 1)..Len(params) : params[j] # n

\* C12: the body of a call runs, not inside a loop, on the captured
\* snapshot with every parameter bound as a constant to its argument's
\* value, the arguments evaluated left to right on the caller's
\* environment; a parameter shadows a captured binding and cannot be
\* assigned.
C12Thm ==
    BodyEntered =>
        LET f == last.value
            a == LeftToRight(last.env, last.args, 1)
            ps == {f.params[i] : i \in 1..Len(f.params)}
        IN  /\ ~Top.in_loop
            /\ stack[Len(stack) - 2].env = a.env
            /\ DOMAIN Top.env.values = (DOMAIN f.env.values) \cup ps
            /\ \A n \in ps :
                  /\ Top.env.values[n] =
                        Entry(a.values[LastParam(f.params, n)], "Initialized", "Constant")
                  /\ Reassign(Top.env, n, Num(2)).err = Error("ReassignConstant", n)
            /\ \A n \in (DOMAIN f.env.values) \ ps : Top.env.values[n] = f.env.values[n]

\* C12 witness: inside a loop, a closure that captured x and has the
\* parameters a and x was called with (x++, x): a holds the old x, the
\* parameter x the new one, and the body is not in a loop.
C12Wit ==
    /\ BodyEntered
    /\ stack[Len(stack) - 2].in_loop
    /\ ~Top.in_loop
    /\ last.value.params = <<"a", "x">>
    /\ ContainsKey(last.value.env, "x")
    /\ Len(last.args) = 2 /\ last.args[1].k = "Unary"
    /\ Top.env.values["a"].value = Get(last.env, "x").value
    /\ Top.env.values["x"].value = Num(Get(last.env, "x").value.n + 1)
    /\ Top.env.values["x"].value # last.value.env.values["x"].value
    /\ Top.env.values["x"].mutability = "Constant"

\* An expression statement a && b or a || b has just run.
LogicEvaluated ==
    /\ last.op = "Eval" /\ last.expr.k = "Binary"
    /\ last.expr.op \in {"LogicAnd", "LogicOr"}
    /\ stack # <<>>

\* C14: a && b (a || b) evaluates b only if a is true (false); otherwise
\* the result is a's value and the environment is the one a left; an
\* operand that is evaluated and is not a boolean fails with BadArg.
C14Thm ==
    LogicEvaluated =>
        LET a == InterpExpression(last.env, last.expr.left)
            b == InterpExpression(a.env, last.expr.right)
            needs_b == IF last.expr.op = "LogicAnd" THEN a.value = Bool(TRUE)
                                                    ELSE a.value = Bool(FALSE)
        IN  IF a.value.t # "Bool"
            THEN err = Error("BadArg", a.value.t) /\ Top.env = a.env
            ELSE IF ~needs_b
            THEN err = NoError /\ Top.value = a.value /\ Top.env = a.env
            ELSE IF b.value.t # "Bool"
            THEN err = Error("BadArg", b.value.t) /\ Top.env = b.env
            ELSE err = NoError /\ Top.value = b.value /\ Top.env = b.env

\* C14 witness: false && (++x < 3) gave false and x is as it was, though
\* evaluating ++x < 3 there would have reassigned x.
C14Wit ==
    /\ LogicEvaluated
    /\ last.expr = EBinary("LogicAnd", EBool(FALSE), SideEffect)
    /\ err = NoError
    /\ Top.value = Bool(FALSE)
    /\ Top.env = last.env
    /\ InterpExpression(last.env, SideEffect).env # last.env

\* The expression statement l[i] has just run.
Indexed == last.op = "Eval" /\ last.expr.k = "Index" /\ stack # <<>>

\* C16: l[i] on a list or string of n elements gives the element at i
\* (for a string as a one-character string) exactly if i is an integer
\* with 0 <= i < n; an integer outside fails with IndexOutOfBounds(i), a
\* number with a fractional part or a value that is no number with
\* ExpectedInteger; a value that is neither list nor string with
\* NotIndexable.
C16Thm ==
    Indexed =>
        LET c == last.env.values["l"].value
            i == last.env.values["i"].value
            is_int == i.t = "Num" /\ "half" \notin DOMAIN i
            n == IF c.t = "List" THEN Len(c.items) ELSE Len(c.chars)
        IN  IF c.t \notin {"List", "Str"} THEN err.kind = "NotIndexable"
            ELSE /\ (err = NoError) <=> (is_int /\ 0 <= i.n /\ i.n < n)
                 /\ err = NoError =>
                        Top.value = IF c.t = "List" THEN c.items[i.n + 1]
                                    ELSE Str(<<c.chars[i.n + 1]>>)
                 /\ (is_int /\ (i.n < 0 \/ i.n >= n)) => err = IndexOutOfBounds(i.n)
                 /\ ~is_int => err.kind = "ExpectedInteger"

\* C16 witness: a list of two elements indexed with 2 failed with
\* IndexOutOfBounds(2).
C16Wit ==
    /\ Indexed
    /\ last.env.values["l"].value.t = "List"
    /\ Len(last.env.values["l"].value.items) = 2
    /\ last.env.values["i"].value = Num(2)
    /\ err = IndexOutOfBounds(2)

\* C15: a for statement desugars to the statement its hand-expanded
\* text { init; while (stop) { body statements; step; } } desugars to, so
\* the interpreter runs the same statements in the same order for both:
\* the body's statements, then the step, then the stop condition again.
C15Thm ==
    last.op = "Desugared" =>
        last.desugared = DesugarStatement(HandExpanded(last.statement))

\* C15 witness: a for loop whose body holds a continue and a nested for
\* loop is desugared to a block of init and a while whose body block ends
\* with the step.
C15Wit ==
    /\ last.op = "Desugared"
    /\ last.statement.body.stmts = <<SContinue, InnerFor>>
    /\ last.desugared.k = "Block"
    /\ last.desugared.stmts[1] = DesugarStatement(last.statement.init)
    /\ last.desugared.stmts[2].k = "While"
    /\ last.desugared.stmts[2].body.stmts[1] = StContinue
    /\ last.desugared.stmts[2].body.stmts[2].k = "Block"
    /\ last.desugared.stmts[2].body.stmts[3] = DesugarStatement(last.statement.step)


\* C17.  An unparenthesised x op1 y op2 1 parses as (x op1 y) op2 1 when
\* op2 does not bind tighter than op1 and as x op1 (y op2 1) when it does,
\* the operators binding, loosest first: ||, &&, == !=, < > <= >=, + -,
\* * % /; a unary - or ! binds tighter than every binary operator.
Binds(token) ==
    CASE token = "||" -> 1
      [] token = "&&" -> 2
      [] token \in {"==", "!="} -> 3
      [] token \in {"<", ">", "<=", ">="} -> 4
      [] token \in {"+", "-"} -> 5
      [] token \in {"*", "%", "/"} -> 6

Atom(token) == IF token \in NumTokens THEN SNum(NumberOf(token)) ELSE SVar(token)

C17Thm ==
    /\ (last.op = "ParsedExpr" /\ last.input.shape = "Chain") =>
            LET t == last.input.tokens
                op1 == OperatorOf(t[2])
                op2 == OperatorOf(t[4])
            IN  /\ last.result.err = NoError
                /\ last.result.rest = <<>>
                /\ last.result.expr =
                       IF Binds(t[4]) > Binds(t[2])
                       THEN SBinary(op1, Atom(t[1]), SBinary(op2, Atom(t[3]), Atom(t[5])))
                       ELSE SBinary(op2, SBinary(op1, Atom(t[1]), Atom(t[3])), Atom(t[5]))
    /\ (last.op = "ParsedExpr" /\ last.input.shape = "Unary") =>
            LET t == last.input.tokens IN
                /\ last.result.err = NoError
                /\ last.result.rest = <<>>
                /\ last.result.expr =
                       SBinary(OperatorOf(t[3]), SUnary(OperatorOf(t[1]), Atom(t[2])),
                               Atom(t[4]))

\* x + y * 1 has been parsed as x + (y * 1)
C17Wit ==
    /\ last.op = "ParsedExpr"
    /\ last.input.shape = "Chain"
    /\ last.input.tokens = <<"x", "+", "y", "*", "1">>
    /\ last.result.expr =
           SBinary("Plus", SVar("x"), SBinary("Times", SVar("y"), SNum(1)))

\* C18.  A well-formed parenthesised expression ( inner ), alone or followed
\* by an operator and an operand, parses as that expression: what inner
\* parses as on its own, made the left operand of the operator that follows.
C18Claim ==
    (last.op = "ParsedExpr" /\ last.input.shape = "Paren") =>
        LET inner == ParseExpr(last.input.inner).expr
            suffix == last.input.suffix
        IN  /\ last.result.err = NoError
            /\ last.result.rest = <<>>
            /\ last.result.expr =
                   IF suffix = <<>> THEN inner
                   ELSE SBinary(OperatorOf(suffix[1]), inner, Atom(suffix[2]))

\* C19.  A top-level procedure or a lambda whose body is a statement other
\* than a block is rejected with ExpectedBlock.
C19Claim ==
    /\ (last.op = "ParsedExpr" /\ last.input.shape = "Lambda"
            /\ last.input.body \in OtherBodies) =>
        last.result.err = Error("ExpectedBlock", "")
    /\ (last.op = "ParsedProgram" /\ last.input.shape = "Proc"
            /\ last.input.body \in OtherBodies) =>
        last.result.err = Error("ExpectedBlock", "")

\* C20.  As stated: a program in which two procedures share a name fails
\* with MultipleSameNamedProcs of a shared name, a program without a
\* procedure named main fails with NoMain, and every other program is
\* accepted, whatever the number of parameters of main.
Shared(names) ==
    {i \in 1..Len(names) : \E j \in (i + 1)..Len(names) : names[j] = names[i]}

HasMain(names) == \E i \in 1..Len(names) : names[i] = "main"

LatestShared(names) ==
    names[CHOOSE i \in Shared(names) : \A j \in Shared(names) : j <= i]

C21Claim ==
    (last.op = "ParsedProgram" /\ last.input.shape = "Truncated") =>
        last.result.err = UnexpectedEOF

\* C22.  An if chain evaluates its conditions in source order up to the
\* first true one and comes to the block of that condition, else to the
\* else block, else to no block; it desugars to a right-nested if whose
\* innermost else is absent when the chain has no else.
IsTrue(cond) == cond \in {SBool(TRUE), CountedTrue}

IsCounted(cond) == cond \in {CountedFalse, CountedTrue}

\* The conditions of the chain evaluated: those up to the first that is
\* true or not a boolean.
Upto(conds) ==
    LET stops == {i \in 1..Len(conds) : IsTrue(conds[i]) \/ conds[i] = SVar("n")} IN
    IF stops = {} THEN Len(conds) ELSE CHOOSE i \in stops : \A j \in stops : i <= j

RECURSIVE RightNested(_, _, _)
RightNested(conds, i, has_else) ==
    StIf(DesugarExpression(conds[i]), StBlock(<<StExpr(ENum(i))>>),
         IF i < Len(conds) THEN <<RightNested(conds, i + 1, has_else)>>
         ELSE IF has_else THEN <<StBlock(<<StExpr(ENum(0))>>)>>
         ELSE <<>>)

C22Thm ==
    /\ last.op \in {"Desugared", "Interpreted"} =>
           last.desugared = RightNested(last.conds, 1, last.has_else)
    /\ last.op = "Interpreted" =>
           LET conds == last.conds
               k == Upto(conds)
           IN  /\ last.result.evaluated = [i \in 1..k |-> DesugarExpression(conds[i])]
               /\ Get(last.result.env, "x").value =
                      Num(Cardinality({i \in 1..k : IsCounted(conds[i])}))
               /\ IsTrue(conds[k]) =>
                      /\ last.result.err = NoError
                      /\ last.result.chosen = <<StBlock(<<StExpr(ENum(k))>>)>>
               /\ conds[k] = SVar("n") =>
                      /\ last.result.err = Error("BadArg", "Nil")
                      /\ last.result.chosen = <<>>
               /\ (~IsTrue(conds[k]) /\ conds[k] # SVar("n")) =>
                      /\ last.result.err = NoError
                      /\ last.result.chosen =
                             IF last.has_else THEN <<StBlock(<<StExpr(ENum(0))>>)>>
                             ELSE <<>>

\* if (x++ < 0) { 1; } else if (true) { 2; } else if (x++ < 9) { 3; } came
\* to { 2; } with x counted once.
C22Wit ==
    /\ last.op = "Interpreted"
    /\ last.conds = <<CountedFalse, SBool(TRUE), CountedTrue>>
    /\ ~last.has_else
    /\ last.result.chosen = <<StBlock(<<StExpr(ENum(2))>>)>>
    /\ Get(last.result.env, "x").value = Num(1)

\* C23.  ++ and -- on a mutable x that holds the number n bind x to n + 1
\* or n - 1 and yield the new number (prefix) or n (postfix).  An operand
\* other than a variable fails with InvalidAssignmentTarget, an x that does
\* not hold a number with BadArg, a constant x that holds a number with
\* ReassignConstant(x), and x is then as it was.
C23Thm ==
    last.op = "Interpreted" =>
        LET operand == last.expr.operand
            x == last.env.values["x"]
            plus == last.expr.op \in {"PreIncrement", "PostIncrement"}
            prefix == last.expr.op \in {"PreIncrement", "PreDecrement"}
            new == IF plus THEN x.value.n + 1 ELSE x.value.n - 1
        IN  IF operand # EVar("x")
            THEN /\ last.result.err = Error("InvalidAssignmentTarget", "")
                 /\ last.result.env = last.env
            ELSE IF x.value.t # "Num"
            THEN /\ last.result.err = Error("BadArg", x.value.t)
                 /\ last.result.env = last.env
            ELSE IF x.mutability = "Constant"
            THEN /\ last.result.err = Error("ReassignConstant", "x")
                 /\ last.result.env = last.env
            ELSE /\ last.result.err = NoError
                 /\ last.result.env.values["x"].value = Num(new)
                 /\ last.result.value = IF prefix THEN Num(new) ELSE x.value

\* x-- on a mutable x that holds 2 yielded 2 and left x at 1.
C23Wit ==
    /\ last.op = "Interpreted"
    /\ last.expr = EUnary("PostDecrement", EVar("x"))
    /\ last.env.values["x"] = Entry(Num(2), "Initialized", "Mutable")
    /\ last.result.value = Num(2)
    /\ last.result.env.values["x"].value = Num(1)

\* C24.  for (init; stop; step) body parses when init is a let, a const
\* or an assignment-like statement and step an assignment-like statement;
\* another init fails with ExpectedAssignmentOrInitialization, another
\* step with ExpectedAssignment.
C24Claim ==
    (last.op = "ParsedProgram" /\ last.input.shape = "For") =>
        IF last.input.init \notin {"let", "const", "assignment"}
        THEN last.result.err = Error("ExpectedAssignmentOrInitialization", "")
        ELSE IF last.input.step # "assignment"
        THEN last.result.err = Error("ExpectedAssignment", "")
        ELSE /\ last.result.err = NoError
             /\ last.result.main.stmts[1].k = "SFor"

\* C25: head, rest, is_empty and is_nil called with no argument or with more
\* than one fail with ArgMismatch; head, rest and is_empty of a value that is
\* not a list fail with ExpectedList; head and rest of the empty list are
\* nil; head of a non-empty list is its first element and rest the list of
\* the others (the empty list for a list of one element).
C25Expected(builtin, v) ==
    IF builtin = "IsNil" THEN [kind |-> "None", value |-> Bool(v.t = "Nil")]
    ELSE IF v.t # "List" THEN [kind |-> "ExpectedList", value |-> Nil]
    ELSE IF builtin = "IsEmpty" THEN [kind |-> "None", value |-> Bool(Len(v.items) = 0)]
    ELSE IF Len(v.items) = 0 THEN [kind |-> "None", value |-> Nil]
    ELSE IF builtin = "Head" THEN [kind |-> "None", value |-> v.items[1]]
    ELSE [kind |-> "None",
          value |-> List([i \in 1..(Len(v.items) - 1) |-> v.items[i + 1]])]

IsBuiltinCall == last.op = "Interpreted" /\ last.expr.k = "PrimitiveCall"

C25Thm ==
    IsBuiltinCall =>
        LET args == last.expr.args
            r == last.result
        IN  /\ Len(args) # 1 => r.err.kind = "ArgMismatch"
            /\ (Len(args) = 1 /\ args[1].k = "Var" /\ args[1].id \in DOMAIN BuiltinValues) =>
                  LET want == C25Expected(last.expr.builtin, BuiltinValues[args[1].id]) IN
                  /\ r.err.kind = want.kind
                  /\ r.value = want.value
            /\ (Len(args) = 1 /\ args[1].k = "Num") =>
                  r.err.kind = C25Expected(last.expr.builtin, Num(args[1].n)).kind

C25Wit ==
    /\ IsBuiltinCall
    /\ last.expr.builtin = "Rest"
    /\ last.expr.args = <<EVar("l")>>
    /\ last.result.err = NoError
    /\ last.result.value = List(<<>>)

\* C26: a string matching [a-zA-Z][a-zA-Z0-9_]* that is not a keyword
\* tokenizes to one ID token carrying the whole string, also when a keyword
\* is a proper prefix of it; digits immediately followed by a letter, and a
\* string starting with "_", are tokenizer errors.
IsIdText(s) == s # <<>> /\ Head(s) \in Letters /\ Run(s, WordChars) = Len(s)

IsKeywordText(s) == \E i \in 1..Len(KeywordTexts) : KeywordTexts[i] = s

DigitsThenLetter(s) ==
    /\ Run(s, Digits) > 0
    /\ Run(s, Digits) < Len(s)
    /\ s[Run(s, Digits) + 1] \in Letters

C26Claim ==
    last.op = "Tokenized" =>
        /\ (IsIdText(last.s) /\ ~IsKeywordText(last.s)) =>
              /\ last.result.err = NoError
              /\ Len(last.result.tokens) = 1
              /\ last.result.tokens[1].value = TokenID(last.s)
        /\ DigitsThenLetter(last.s) => last.result.err # NoError
        /\ (last.s # <<>> /\ Head(last.s) = "_") => last.result.err # NoError

\* C27: leaving a block raises no error of its own: when the statements of
\* a block ran without error (a Break or Continue only inside a loop), the
\* write-back of the reassigned names into the enclosing environment
\* succeeds, whatever the mutability of the enclosing bindings.
C27Claim ==
    (last.op \in {"BlockEnd", "BlockSignal"} /\ last.frame.kind = "Block") => err = NoError

\* C28: a call does not change the caller's bindings through the callee's
\* body: while the body runs and when the call returns, every environment
\* below the call is as it was once the arguments were evaluated; and the
\* body of a closure starts, at every call, from the values the closure
\* captured, so what an earlier call assigned to them is gone.
C28Thm ==
    [][/\ \A i \in 2..Len(stack) :
             stack[i].kind = "Call" =>
                 \A j \in 1..(i - 1) : j <= Len(stack') => stack'[j].env = stack[j].env
       /\ (/\ last'.op = "Call" /\ last'.value.t = "Proc" /\ last'.value.body = "Block"
           /\ err' = NoError) =>
             LET f == last'.value
                 body == stack'[Len(stack')]
             IN  \A n \in DOMAIN f.env.values :
                     (\A k \in 1..Len(f.params) : f.params[k] # n)
                         => body.env.values[n] = f.env.values[n]]_vars

\* C28 witness: a call of the closure f has returned whose body assigned 2
\* to the captured x; the caller's x is still the 1 it was initialized to,
\* and so is the x that f, as the caller binds it, has captured.
C28Wit ==
    /\ Running
    /\ last.op = "CallReturn"
    /\ ContainsKey(last.env, "x")
    /\ last.env.values["x"] = Entry(Num(2), "Reassigned", "Mutable")
    /\ Top.env.values["x"] = Entry(Num(1), "Initialized", "Mutable")
    /\ Top.env.values["f"].value.env.values["x"] = Entry(Num(1), "Initialized", "Mutable")

\* No entry of the environment is both Constant and Reassigned, and the
\* same holds of the environments captured by the procedure values in it.
RECURSIVE NoConstantReassigned(_)
NoConstantReassigned(env) ==
    \A n \in DOMAIN env.values :
        /\ env.values[n].mutability = "Constant" => env.values[n].assignment_type = "Initialized"
        /\ env.values[n].value.t = "Proc" => NoConstantReassigned(env.values[n].value.env)

\* C29: in every environment of the run no entry is both Constant and
\* Reassigned; and the write-back at the exit of a block fails only for a
\* name the block declared itself, so for the names it did not declare
\* only mutable entries are written.
C29Thm ==
    /\ \A i \in 1..Len(stack) :
          /\ NoConstantReassigned(stack[i].env)
          /\ stack[i].proc # Nil => NoConstantReassigned(stack[i].proc.env)
    /\ (/\ last.op \in {"BlockEnd", "BlockSignal"}
        /\ last.frame.kind = "Block"
        /\ err # NoError) => (err.kind = "ReassignConstant" /\ err.arg \in last.frame.declared)

\* C29 witness: a block that declared nothing was left and wrote a
\* reassigned name back to an environment that also binds a constant.
C29Wit ==
    /\ Running
    /\ last.op = "BlockEnd"
    /\ last.frame.kind = "Block" /\ last.frame.declared = {}
    /\ \E n \in DOMAIN stack[EnvIdx].env.values :
          stack[EnvIdx].env.values[n].mutability = "Constant"
    /\ \E n \in DOMAIN stack[EnvIdx].env.values :
          /\ stack[EnvIdx].env.values[n].assignment_type = "Reassigned"
          /\ n \in DOMAIN stack[EnvIdx].assigned

\* The body of a for loop is left, without error, by this step.
ForBodyLeft ==
    /\ Running
    /\ Top.kind = "Block" /\ Top.role = "ForLoop"
    /\ err' = NoError
    /\ Len(stack') = Len(stack) - 1

\* C30: a continue in the body of a for loop skips the step of that
\* iteration: the body is left before its step ran, the loop variable is
\* what the statements of the body left it, and the stop condition is what
\* runs next; the step runs only after body statements that all yielded
\* Normal, it advances the variable, and a body that completes has run it.
C30Thm ==
    [][/\ ForBodyLeft =>
             LET p == ParentIdx(Len(stack))
                 v == Top.stepvar
             IN  /\ sig.cf = "Continue" =>
                       /\ ~Top.closed
                       /\ stack'[p].env.values[v] =
                             IF Top.env.values[v].assignment_type = "Reassigned"
                             THEN Entry(Top.env.values[v].value, "Reassigned", "Mutable")
                             ELSE stack[p].env.values[v]
                       /\ stack'[Len(stack')].kind = "While"
                       /\ sig'.cf = "Continue"
                 /\ sig.cf = "Normal" => Top.closed
       /\ (last'.op = "ForStep" /\ err' = NoError) =>
             /\ sig.cf = "Normal"
             /\ ~Top.closed /\ stack'[Len(stack')].closed
             /\ stack'[Len(stack')].env.values[Top.stepvar].value =
                   Num(Top.env.values[Top.stepvar].value.n + 1)]_vars

\* C30 witness: the second iteration of a for loop was left by continue;
\* the loop variable, initialized to 1, is the 2 the step of the first
\* iteration made it, and the loop is about to evaluate its condition.
C30Wit ==
    /\ Running
    /\ last.op = "BlockSignal" /\ last.id = "Continue"
    /\ last.frame.role = "ForLoop"
    /\ Top.kind = "While" /\ Top.role = "For"
    /\ sig.cf = "Continue"
    /\ stack[EnvIdx].env.values["x"].value = Num(2)

====
